---- MODULE Spec2Model ----
(***************************************************************************)
(* comic.js 0.94: the path sink, the fuzz engine, the shape drawers and    *)
(* the geometry kernel, as a state machine over the library's module state.*)
(*                                                                         *)
(* Numbers.  JavaScript numbers are modelled in fixed point: a coordinate, *)
(* a length or a fuzz factor is an integer count of 1/Res units, and every *)
(* division rounds to the nearest such count (RoundDiv), as a float        *)
(* operation rounds to the nearest float.  Coordinates that went through   *)
(* round() are integer counts of 1/roundFactor ("grid" units).  The source *)
(* rounds to 10 decimal digits; TLC's integers are 32 bits wide, so the    *)
(* model keeps MaxDigits digits, and one digit more before rounding.       *)
(* Fractions (the ease function, sines and cosines) are counts of          *)
(* 1/FracScale.  Math.random() draws k/RandDen, k in 0..RandDen-1.         *)
(*                                                                         *)
(* Angles are exact fractions n/d of a turn, pi being 355/113 where a      *)
(* plain number is taken as radians.  The sine is Bhaskara's rational      *)
(* approximation, exact at the multiples of a twelfth of a turn, and the   *)
(* arc cosine is its inverse.  Powers with broken exponents are products   *)
(* of repeated square roots.  NaN is one value apart from all numbers,     *)
(* which compares unequal to everything.                                   *)
(*                                                                         *)
(* History.  call, trace and ret record the last top-level call, the calls *)
(* of path it made (with the path string and pen position before and       *)
(* after each) and what it returned; the library does not read them.       *)
(***************************************************************************)
EXTENDS Integers, Sequences, FiniteSets, TLC

\* ------------------------------------------------------------------ bounds
MaxDigits == 0
RandDen == 4
FracScale == 1000

\* ------------------------------------------------- module-level constants
fsteps == 50
msteps == 4
ff == 8
SourcePrecision == 10

precision == IF SourcePrecision < MaxDigits THEN SourcePrecision ELSE MaxDigits
roundFactor == 10 ^ precision
Res == 10 * roundFactor

\* a number of the source, given in units, as a fixed-point count
Fx(u) == u * Res

VARIABLES
    C,          \* the global COMIC object: ff, ffc, fsteps, msteps, pathPos
    pathStr,    \* the path string built by the svg sink, as a token sequence
    call,       \* history: the last top-level call, [op, args, dirty], dirty
                \* when the path string was not empty as it was made
    trace,      \* history: the emissions (calls of path) of the last call
    ret,        \* history: what the last call returned or handed on
    bound,      \* the module variables begin, path and finish, each as the
                \* name of the binding that assigned it, and libs, the
                \* objects that carry the drawers
    page        \* the document of the page as C.magic has left it: the ids
                \* of the elements that have the property walked, and for
                \* every id the path that has replaced the element, if any

vars == <<C, pathStr, call, trace, ret, bound, page>>

\* ------------------------------------------------------------- arithmetic
Abs(n) == IF n < 0 THEN -n ELSE n

\* n/d rounded to the nearest integer, halves upwards (d > 0)
RoundDiv(n, d) == (2 * n + d) \div (2 * d)

\* Math.ceil(n/d) for d > 0
CeilDiv(n, d) == -((-n) \div d)

RECURSIVE SqrtUp(_, _, _)
\* the least c in lo..hi with c*c >= n (hi*hi >= n is given)
SqrtUp(n, lo, hi) ==
    IF lo >= hi THEN hi
    ELSE LET mid == (lo + hi) \div 2
         IN  IF mid * mid >= n THEN SqrtUp(n, lo, mid)
                               ELSE SqrtUp(n, mid + 1, hi)

Pt(x, y) == [x |-> x, y |-> y]

\* the number NaN, and JavaScript's != on numbers
NaN == -(2^30)
\* the number Infinity
Infinity == 2^30
Differ(a, b) == a = NaN \/ b = NaN \/ a # b

\* An optional argument: <<>> is undefined, <<v>> a value.
Undefined == <<>>
Some(v) == <<v>>

\* a * b for a fraction b (a count of 1/FracScale)
MulFx(a, b) == RoundDiv(a * b, FracScale)

RECURSIVE GCD(_, _)
GCD(a, b) == IF b = 0 THEN a ELSE GCD(b, a % b)

\* the square root of a fraction (a count of 1/FracScale), to the nearest
sqrtFx(v) ==
    LET n == v * FracScale
        up == SqrtUp(n, 0, 46340)
    IN  IF up > 0 /\ n <= (up - 1) * (up - 1) + (up - 1) THEN up - 1 ELSE up

\* ------------------------------------------------------------------ angles
\* An angle is a fraction n/d of a full turn (2*PI*n/d radians), kept in
\* lowest terms, so that sums and quotients of the quarter turns the
\* drawers pass around are exact.
Ang(n, d) ==
    LET g == GCD(Abs(n), d)
    IN  IF n = 0 THEN [n |-> 0, d |-> 1] ELSE [n |-> n \div g, d |-> d \div g]

PI2 == Ang(1, 1)
AngAdd(a, b) == Ang(a.n * b.d + b.n * a.d, a.d * b.d)
AngSub(a, b) == Ang(a.n * b.d - b.n * a.d, a.d * b.d)
AngDiv(a, k) == Ang(a.n, a.d * k)
AngMin(a, b) == IF a.n * b.d <= b.n * a.d THEN a ELSE b

\* Math.sin and Math.cos, as counts of 1/FracScale, by Bhaskara's rational
\* approximation 16p(1-p) / (5 - 4p(1-p)) of sin(PI*p), which is exact at
\* the multiples of a twelfth of a turn.  For an angle of denominator up
\* to 450 the approximation is evaluated exactly, for a finer one with p
\* as a count of 1/FracScale.
sinTurn(a) ==
    LET n == a.n % a.d
        neg == 2 * n >= a.d
        p == IF neg THEN 2 * n - a.d ELSE 2 * n
        q == p * (a.d - p)
        pf == RoundDiv(p * FracScale, a.d)
        qf == MulFx(pf, FracScale - pf)
        v == IF a.d <= 450
             THEN RoundDiv(FracScale * 16 * q, 5 * a.d * a.d - 4 * q)
             ELSE RoundDiv(16 * qf * FracScale, 5 * FracScale - 4 * qf)
    IN  IF neg THEN -v ELSE v

cosTurn(a) == sinTurn(AngAdd(a, Ang(1, 4)))

\* Math.acos of a fraction c, the inverse of the approximation above:
\* acos(c) = PI * sqrt((1 - c) / (4 + c)) for 0 <= c <= 1
acosTurn(c) ==
    LET a == Abs(c)
        h == sqrtFx(RoundDiv((FracScale - a) * FracScale, 4 * FracScale + a))
    IN  IF c >= 0 THEN Ang(h, 2 * FracScale)
        ELSE Ang(FracScale - h, 2 * FracScale)

\* a number of radians r (an integer) as an angle; PI is taken as 355/113
radians(r) == Ang(r * 113, 710)

\* ------------------------------------------------------- the path string
\* A path string is a sequence of tokens: a command letter, a number (in
\* grid units) or the separator that Array.join(' ') puts between elements.
Ltr(c) == [t |-> c, v |-> 0]
Num(n) == [t |-> "n", v |-> n]
Sp == [t |-> "sp", v |-> 0]

\* join, were it to put nothing between the elements
joinTight(s) == s

RECURSIVE Join(_)
\* Array.prototype.join(' ')
Join(s) ==
    IF Len(s) <= 1 THEN s
    ELSE <<Head(s), Sp>> \o Join(Tail(s))

\* Math.round(x * roundFactor) / roundFactor, as a count of grid units
round(x) ==
    IF x = NaN THEN NaN ELSE (2 * x * roundFactor + Res) \div (2 * Res)

\* ------------------------------------------------------------- svg sink
\* The drawers run on a record m of the state they read and write:
\* C, pathStr, the history trace, and the random source (seed, rn).
\* begin, were it to leave the path string and the pen position alone
beginKeeps(m) == m

begin(m) == [m EXCEPT !.pathStr = <<>>, !.C.pathPos = Pt(0, 0)]

\* path, were it to test only for the first command of the path string
pathFirstOnly(m, x0, y0, cx, cy, x1, y1) ==
    LET curve == <<Ltr("Q"), Num(round(cx)), Num(round(cy)),
                   Num(round(x1)), Num(round(y1))>>
    IN  [m EXCEPT
            !.pathStr =
                IF Len(m.pathStr) = 0
                THEN m.pathStr \o Join(<<Ltr("M"), Num(round(x0)), Num(round(y0))>> \o curve)
                ELSE m.pathStr \o Join(curve),
            !.C.pathPos = Pt(round(x1), round(y1))]

\* path, were it to leave C.pathPos at the start of the segment
pathPenAtStart(m, x0, y0, cx, cy, x1, y1) ==
    LET curve == <<Ltr("Q"), Num(round(cx)), Num(round(cy)),
                   Num(round(x1)), Num(round(y1))>>
    IN  [m EXCEPT
            !.pathStr =
                IF \/ Differ(m.C.pathPos.x, round(x0))
                   \/ Differ(m.C.pathPos.y, round(y0))
                   \/ Len(m.pathStr) = 0
                THEN m.pathStr \o Join(<<Ltr("M"), Num(round(x0)), Num(round(y0))>> \o curve)
                ELSE m.pathStr \o Join(curve),
            !.C.pathPos = Pt(round(x0), round(y0))]

path(m, x0, y0, cx, cy, x1, y1) ==
    LET rx0 == round(x0)
        ry0 == round(y0)
        rcx == round(cx)
        rcy == round(cy)
        rx1 == round(x1)
        ry1 == round(y1)
        curve == <<Ltr("Q"), Num(rcx), Num(rcy), Num(rx1), Num(ry1)>>
    IN  [m EXCEPT
            !.pathStr =
                IF \/ Differ(m.C.pathPos.x, rx0)
                   \/ Differ(m.C.pathPos.y, ry0)
                   \/ Len(m.pathStr) = 0
                THEN m.pathStr \o Join(<<Ltr("M"), Num(rx0), Num(ry0)>> \o curve)
                ELSE m.pathStr \o Join(curve),
            !.C.pathPos = Pt(rx1, ry1)]

\* Sequencing of two statements: in Only({second(x) : x \in {first}}) the
\* first has run, and x is its result, when the second starts.
Only(S) == CHOOSE r \in S : TRUE

\* path as the canvas binding assigns it: the context moves to (x0, y0) and
\* draws the curve, and the pen position is the end point as it is given
canvasPath(m, x0, y0, cx, cy, x1, y1) == [m EXCEPT !.C.pathPos = Pt(x1, y1)]

\* A call site of path: the call of the function the module variable path
\* holds, and its record in the history.  A machine that hangs in a loop
\* that has no end (hung) reaches no later call site.
Emit(m, x0, y0, cx, cy, x1, y1) ==
    IF m.hung THEN m ELSE
    Only({[m2 EXCEPT !.trace = Append(m.trace,
              [x0 |-> x0, y0 |-> y0, cx |-> cx, cy |-> cy, x1 |-> x1, y1 |-> y1,
               prePos |-> m.C.pathPos, preLen |-> Len(m.pathStr),
               postPos |-> m2.C.pathPos, postLen |-> Len(m2.pathStr)])] :
          m2 \in {IF bound.path = "canvas"
                  THEN canvasPath(m, x0, y0, cx, cy, x1, y1)
                  ELSE path(m, x0, y0, cx, cy, x1, y1)}})


\* ----------------------------------------------------------- fuzz engine
\* Math.random(): draw number n of the stream chosen by seed, as k of
\* k/RandDen.  Seeds 0..RandDen-1 give constant streams, seed RandDen the
\* stream 0, 1, 2, ... (mod RandDen).
random(seed, n) == IF seed = RandDen THEN n % RandDen ELSE seed

Seeds == {0, RandDen}

\* fuzz, were the draw not centred on 0
fuzzOneSided(val, f, u) ==
    IF val = NaN THEN NaN
    ELSE val + RoundDiv(f * u, RandDen)

\* val + f * (Math.random() - 0.5), u the draw
fuzz(val, f, u) ==
    IF val = NaN THEN NaN
    ELSE val + RoundDiv(f * (2 * u - RandDen), 2 * RandDen)

\* ----------------------------------------------------------------- cLine
dist2(x0, y0, x1, y1) ==
    LET dx == x1 - x0
        dy == y1 - y0
    IN  SqrtUp(dx * dx + dy * dy, 0, 46340)

\* ft, were its last coefficient 9
ftOfNine(i, steps) ==
    RoundDiv(FracScale * (15 * i^4 * steps - 6 * i^5 - 9 * i^3 * steps^2),
             steps^5)

\* handMovement's ft for t = i/steps: 15 t^4 - 6 t^5 - 10 t^3
ftOf(i, steps) ==
    RoundDiv(FracScale * (15 * i^4 * steps - 6 * i^5 - 10 * i^3 * steps^2),
             steps^5)

\* handMovement, were the difference taken the other way round
handMovementAway(x0, x1, ft) == x0 + RoundDiv((x1 - x0) * ft, FracScale)

handMovement(x0, x1, ft) == x0 + RoundDiv((x0 - x1) * ft, FracScale)

\* the steps of a line, were the quotient rounded down
lineStepsFloor(cfg, x0, y0, x1, y1) ==
    LET dx == x1 - x0
        dy == y1 - y0
        steps == SqrtUp(dx * dx + dy * dy, 0, 46340) \div cfg.fsteps
    IN  IF steps < cfg.msteps THEN cfg.msteps ELSE steps

\* steps and fuzz factor of a line
\* (d / 0 is Infinity, 0 / 0 is NaN, and neither is less than msteps)
lineSteps(cfg, x0, y0, x1, y1) ==
    LET steps == CeilDiv(dist2(x0, y0, x1, y1), cfg.fsteps)
    IN  IF cfg.fsteps = 0
        THEN IF dist2(x0, y0, x1, y1) = 0 THEN NaN ELSE Infinity
        ELSE IF steps < cfg.msteps THEN cfg.msteps ELSE steps

\* f, were it never reduced
lineFuzzFull(cfg, steps) == cfg.ff

lineFuzz(cfg, steps) ==
    IF steps = cfg.msteps THEN RoundDiv(cfg.ff * 10, 14) ELSE cfg.ff

RECURSIVE cLineLoop(_, _, _, _, _)
\* the for loop of cLine from step i on; l holds the line and its steps
cLineLoop(m, l, i, xt1, yt1) ==
    IF i > l.steps THEN m
    ELSE LET ft == ftOf(i, l.steps)
             nx == handMovement(l.x0, l.x1, ft)
             ny == handMovement(l.y0, l.y1, ft)
             cx == fuzz(xt1, l.f, random(m.seed, m.rn))
             cy == fuzz(yt1, l.f, random(m.seed, m.rn + 1))
         IN  Only({cLineLoop(m2, l, i + 1, nx, ny) :
                   m2 \in {Emit([m EXCEPT !.rn = @ + 2], xt1, yt1, cx, cy, nx, ny)}})

\* with a NaN coordinate steps is NaN, and i <= steps never holds
cLine(m, x0, y0, x1, y1) ==
    LET steps == lineSteps(m.C, x0, y0, x1, y1)
        l == [x0 |-> x0, y0 |-> y0, x1 |-> x1, y1 |-> y1,
              steps |-> steps, f |-> lineFuzz(m.C, steps)]
    IN  IF m.hung \/ NaN \in {x0, y0, x1, y1} \/ steps = NaN THEN m
        ELSE IF steps = Infinity
        THEN \* i <= steps holds for every i: the loop has no end
             [m EXCEPT !.hung = TRUE]
        ELSE Only({cLineLoop(m, line, 1, handMovement(x0, x1, 0),
                             handMovement(y0, y1, 0)) : line \in {l}})

\* -------------------------------------------------------------- cEllipse
RECURSIVE rootStepsFloor(_, _, _)
\* the steps, were the product rounded down
rootStepsFloor(v, k, n) ==
    IF v <= 0 \/ (n + 1)^(2 * k) * Res^k > 3^(2 * k) * v THEN n
    ELSE rootStepsFloor(v, k, n + 1)

RECURSIVE rootSteps(_, _, _)
\* Math.ceil(Math.pow(v, 1/(2k)) * 3) for a product v of k lengths: the
\* least n from n on with n^(2k) * Res^k >= 3^(2k) * v; no step for v <= 0
\* (the power is 0 or NaN)
rootSteps(v, k, n) ==
    IF v <= 0 \/ n^(2 * k) * Res^k >= 3^(2 * k) * v THEN n
    ELSE rootSteps(v, k, n + 1)

\* Math.pow(3 * r, 0.35) * Math.sqrt(r < 25 ? 25 / r : 1) as a fraction; the
\* power is taken as the product of the 4th, 16th and 32nd roots
\* (exponent 0.34375)
ellipseBoost(r) ==
    LET x == RoundDiv(3 * r * FracScale, Res)
        r2 == sqrtFx(sqrtFx(x))
        r4 == sqrtFx(sqrtFx(r2))
        r5 == sqrtFx(r4)
        pw == MulFx(MulFx(r2, r4), r5)
    IN  IF r < Fx(25) /\ r > 0
        THEN MulFx(pw, sqrtFx(RoundDiv(Fx(25) * FracScale, r)))
        ELSE pw

\* 0.95 + Math.random() * 0.1 as a fraction, u the draw
distortion(u) == RoundDiv(95 * FracScale, 100) + RoundDiv(u * FracScale, 10 * RandDen)

\* the point of the ellipse (x, y, a, b, rot) at angle t; getEllipse
\* returns a NaN center together with NaN angles
ellipsePoint(x, y, a, b, rot, t) ==
    LET ca == MulFx(a, cosTurn(t))
        sb == MulFx(b, sinTurn(t))
    IN  IF x = NaN THEN Pt(NaN, NaN)
        ELSE Pt(x + MulFx(ca, cosTurn(rot)) - MulFx(sb, sinTurn(rot)),
                y + MulFx(ca, sinTurn(rot)) + MulFx(sb, cosTurn(rot)))

RECURSIVE cEllipseLoop(_, _, _, _, _)
\* the for loop of cEllipse from step i on; t1 and p1 are those of step i-1
cEllipseLoop(m, e, i, t1, p1) ==
    IF i > e.steps THEN [m |-> m, t1 |-> t1, p1 |-> p1]
    ELSE LET t == AngAdd(t1, e.segLength)
             p == ellipsePoint(e.x, e.y, e.rxs, e.rys, e.rot, t)
             cx == fuzz(p1.x, e.fh, random(m.seed, m.rn))
             cy == fuzz(p1.y, e.fv, random(m.seed, m.rn + 1))
             m2 == Emit([m EXCEPT !.rn = @ + 2], p1.x, p1.y, cx, cy, p.x, p.y)
         IN  Only({cEllipseLoop(s.m, e, i + 1, s.t1, s.p1) :
                   s \in {[m |-> m2, t1 |-> t, p1 |-> p]}})

\* rot, start and end are optional angles
cEllipse(m, x, y, rh, rv, rot, start, end) ==
    LET start1 == IF start = Undefined THEN Ang(0, 1)
                  ELSE AngMin(Ang(199, 200), start[1])
        end1 == IF end = Undefined THEN PI2 ELSE AngMin(PI2, end[1])
        rot1 == IF rot = Undefined THEN Ang(0, 1) ELSE AngMin(PI2, rot[1])
        steps == rootSteps(rh * rv, 2, 0)
        xs == distortion(random(m.seed, m.rn))
        ys == distortion(random(m.seed, m.rn + 1))
        e == [x |-> x, y |-> y, rot |-> rot1, steps |-> steps,
              fh |-> MulFx(m.C.ffc, ellipseBoost(rh)),
              fv |-> MulFx(m.C.ffc, ellipseBoost(rv)),
              rxs |-> MulFx(rh, xs), rys |-> MulFx(rv, ys),
              segLength |-> IF steps = 0 THEN Ang(0, 1)
                            ELSE AngDiv(AngSub(end1, start1), steps)]
        w1 == ellipsePoint(x, y, rh, rv, rot1, start1)
    IN  Only({Only({Only({Only({cLine(lp.m, lp.p1.x, lp.p1.y, w2.x, w2.y) :
                                w2 \in {ellipsePoint(x, y, rh, rv, rot1, lp.t1)}}) :
                          lp \in {cEllipseLoop(ma, ep[1], 1, start1, ep[2])}}) :
                    ma \in {cLine([m EXCEPT !.rn = @ + 2],
                                  ep[3].x, ep[3].y, ep[2].x, ep[2].y)}}) :
              ep \in {<<e, ellipsePoint(x, y, e.rxs, e.rys, rot1, start1), w1>>}})

\* ----------------------------------------------------------------- cRect
halfPI == Ang(1, 4)

\* rh and rv are optional lengths; the radii cRect draws with
rectRadii(width, height, rh, rv) ==
    LET rh1 == IF rh = Undefined THEN 0
               ELSE IF rh[1] < RoundDiv(width, 2) THEN rh[1] ELSE RoundDiv(width, 2)
        rv1 == IF rv = Undefined THEN rh1
               ELSE IF rv[1] < RoundDiv(height, 2) THEN rv[1] ELSE RoundDiv(height, 2)
    IN  <<rh1, rv1>>

cRect(m, x0, y0, width, height, rh, rv) ==
    LET rh1 == rectRadii(width, height, rh, rv)[1]
        rv1 == rectRadii(width, height, rh, rv)[2]
        x1 == x0 + width
        y1 == y0 + height
        zero == Some(Ang(0, 1))
        corner(a, x, y, start, end) ==
            IF rh1 > 0
            THEN cEllipse(a, x, y, rh1, rv1, zero, Some(start), Some(end))
            ELSE a
    IN  Only({corner(m7, x0 + rh1, y0 + rv1, Ang(1, 2), Ang(3, 4)) :
         m7 \in {cLine(m6, x0, y1 - rv1, x0, y0 + rv1) :
         m6 \in {corner(m5, x0 + rh1, y1 - rv1, halfPI, Ang(1, 2)) :
         m5 \in {cLine(m4, x1 - rh1, y1, x0 + rh1, y1) :
         m4 \in {corner(m3, x1 - rh1, y1 - rv1, Ang(0, 1), halfPI) :
         m3 \in {cLine(m2, x1, y0 + rv1, x1, y1 - rv1) :
         m2 \in {corner(m1, x1 - rh1, y0 + rv1, Ang(3, 4), PI2) :
         m1 \in {cLine(m, x0 + rh1, y0, x1 - rh1, y0)}}}}}}}})

\* --------------------------------------------------------------- cCircle
\* Math.pow(steps, 0.75) * Math.sqrt(r < 25 ? 25 / r : 1) as a fraction
circleBoost(steps, r) ==
    LET r1 == sqrtFx(steps * FracScale)
        pw == MulFx(r1, sqrtFx(r1))
    IN  IF r < Fx(25) /\ r > 0
        THEN MulFx(pw, sqrtFx(RoundDiv(Fx(25) * FracScale, r)))
        ELSE pw

circlePoint(x, y, a, b, t) == Pt(x + MulFx(a, cosTurn(t)), y + MulFx(b, sinTurn(t)))

RECURSIVE cCircleLoop(_, _, _, _, _)
cCircleLoop(m, e, i, t1, p1) ==
    IF i > e.steps THEN [m |-> m, t1 |-> t1, p1 |-> p1]
    ELSE LET t == AngAdd(t1, e.segLength)
             p == circlePoint(e.x, e.y, e.rxs, e.rys, t)
             cx == fuzz(p1.x, e.f, random(m.seed, m.rn))
             cy == fuzz(p1.y, e.f, random(m.seed, m.rn + 1))
             m2 == Emit([m EXCEPT !.rn = @ + 2], p1.x, p1.y, cx, cy, p.x, p.y)
         IN  Only({cCircleLoop(s.m, e, i + 1, s.t1, s.p1) :
                   s \in {[m |-> m2, t1 |-> t, p1 |-> p]}})

\* start and end are optional angles
cCircle(m, x, y, r, start, end) ==
    LET start1 == IF start = Undefined THEN Ang(0, 1)
                  ELSE AngMin(Ang(199, 200), start[1])
        end1 == IF end = Undefined THEN PI2 ELSE AngMin(PI2, end[1])
        steps == rootSteps(r, 1, 0)
        xs == distortion(random(m.seed, m.rn))
        e == [x |-> x, y |-> y, steps |-> steps,
              f |-> MulFx(m.C.ffc, circleBoost(steps, r)),
              rxs |-> MulFx(r, xs), rys |-> MulFx(r, 2 * FracScale - xs),
              segLength |-> IF steps = 0 THEN Ang(0, 1)
                            ELSE AngDiv(AngSub(end1, start1), steps)]
        w1 == circlePoint(x, y, r, r, start1)
    IN  Only({Only({Only({Only({cLine(lp.m, lp.p1.x, lp.p1.y, w2.x, w2.y) :
                                w2 \in {circlePoint(x, y, r, r, lp.t1)}}) :
                          lp \in {cCircleLoop(ma, ep[1], 1, start1, ep[2])}}) :
                    ma \in {cLine([m EXCEPT !.rn = @ + 1],
                                  ep[3].x, ep[3].y, ep[2].x, ep[2].y)}}) :
              ep \in {<<e, circlePoint(x, y, e.rxs, e.rys, start1), w1>>}})

\* ---------------------------------------------------------------- bsplit
\* De Casteljau's table for the split parameter t0 = tn/td: coefficient
\* b[i][j] of the source, times td^j (the products by t0 and 1 - t0 are
\* kept exact; the drawers round a split's result once, by unscale)
RECURSIVE bcoefSwapped(_, _, _, _, _)
\* the table, were the weights t0 and 1 - t0 exchanged
bcoefSwapped(points, tn, td, i, j) ==
    IF j = 0 THEN points[i + 1]
    ELSE LET p == bcoefSwapped(points, tn, td, i, j - 1)
             q == bcoefSwapped(points, tn, td, i + 1, j - 1)
         IN  Pt(tn * p.x + (td - tn) * q.x, tn * p.y + (td - tn) * q.y)

RECURSIVE bcoef(_, _, _, _, _)
bcoef(points, tn, td, i, j) ==
    IF j = 0 THEN points[i + 1]
    ELSE LET p == bcoef(points, tn, td, i, j - 1)
             q == bcoef(points, tn, td, i + 1, j - 1)
         IN  Pt((td - tn) * p.x + tn * q.x, (td - tn) * p.y + tn * q.y)

\* [res1, res2] of the source, every point times den = td^n
bsplit(points, tn, td) ==
    LET n == Len(points) - 1
        scaled(i, j) == LET b == bcoef(points, tn, td, i, j)
                        IN  Pt(b.x * td^(n - j), b.y * td^(n - j))
    IN  [res1 |-> [j \in 1..(n + 1) |-> scaled(0, j - 1)],
         res2 |-> [j \in 1..(n + 1) |-> scaled(j - 1, n - (j - 1))],
         den |-> td^n]

\* the control points of a split as fixed-point numbers
unscale(pts, den) ==
    [j \in 1..Len(pts) |-> Pt(RoundDiv(pts[j].x, den), RoundDiv(pts[j].y, den))]

\* -------------------------------------------------------------- cBezier
\* Math.ceil(Math.pow(d / fsteps, 0.9)); the power is taken as the product
\* of the 2nd, 4th, 8th, 64th and 128th roots (exponent 0.8984)
bezierSteps(cfg, x0, y0, x1, y1) ==
    LET d == dist2(x0, y0, x1, y1) * 3
        x == CeilDiv(d * FracScale, cfg.fsteps)
        r1 == sqrtFx(x)
        r2 == sqrtFx(r1)
        r3 == sqrtFx(r2)
        r6 == sqrtFx(sqrtFx(sqrtFx(r3)))
        r7 == sqrtFx(r6)
        pw == MulFx(MulFx(MulFx(MulFx(r1, r2), r3), r6), r7)
    IN  IF d = 0 THEN 0
        ELSE IF cfg.fsteps = 0 THEN Infinity
        ELSE CeilDiv(IF pw < 1 THEN 1 ELSE pw, FracScale)

RECURSIVE cBezierLoop(_, _, _, _)
\* the for loop of cBezier2 and cBezier3 from step i (counting down) on;
\* Infinity - 1 is Infinity, and the loop from Infinity down has no end
cBezierLoop(m, curve2, f, i) ==
    IF i <= 0 \/ m.hung THEN m
    ELSE IF i = Infinity THEN [m EXCEPT !.hung = TRUE]
    ELSE Only({cBezierLoop(s.m, s.curve2, f, i - 1) :
               s \in {LET curve1 == unscale(points.res1, points.den)
                          n == Len(curve1)
                          p0 == curve1[1]
                          p1 == curve1[n]
                          c == IF n = 3 THEN curve1[2]
                               ELSE Pt(RoundDiv(curve1[2].x + curve1[3].x, 2),
                                       RoundDiv(curve1[2].y + curve1[3].y, 2))
                          cx == fuzz(c.x, f, random(m.seed, m.rn))
                          cy == fuzz(c.y, f, random(m.seed, m.rn + 1))
                      IN  [m |-> Emit([m EXCEPT !.rn = @ + 2],
                                      p0.x, p0.y, cx, cy, p1.x, p1.y),
                           curve2 |-> unscale(points.res2, points.den)] :
                      points \in {bsplit(curve2, 1, i)}}})

cBezier3(m, x0, y0, cx0, cy0, cx1, cy1, x1, y1) ==
    cBezierLoop(m, <<Pt(x0, y0), Pt(cx0, cy0), Pt(cx1, cy1), Pt(x1, y1)>>,
                RoundDiv(m.C.ff * 8, 10), bezierSteps(m.C, x0, y0, x1, y1))

cBezier2(m, x0, y0, cx, cy, x1, y1) ==
    cBezierLoop(m, <<Pt(x0, y0), Pt(cx, cy), Pt(x1, y1)>>,
                RoundDiv(m.C.ff * 8, 10), bezierSteps(m.C, x0, y0, x1, y1))

\* ------------------------------------------------------------ getEllipse
\* the remainder operator % of JavaScript, whose sign is the dividend's
JsRem(a, b) == IF a >= 0 THEN a % b ELSE -((-a) % b)

NaNAngle == [n |-> NaN, d |-> 1]

\* a fraction cut to [-1, 1]: the excess a quotient of rounded numbers may
\* have over the cosine it stands for
unitFx(c) ==
    IF c > FracScale THEN FracScale ELSE IF c < -FracScale THEN -FracScale ELSE c

\* the local function angle of getEllipse, u and v vectors of fractions;
\* the divisor is the length of u times the length of u
angle(u, v) ==
    LET cross == u.x * v.y - u.y * v.x
        dot == MulFx(u.x, v.x) + MulFx(u.y, v.y)
    IN  Only({IF cross > 0 THEN a ELSE Ang(-a.n, a.d) :
              a \in {acosTurn(unitFx(RoundDiv(dot * FracScale, MulFx(lenU, lenU)))) :
              lenU \in {sqrtFx(MulFx(u.x, u.x) + MulFx(u.y, u.y))}}})

\* ps, pe points, rh, rv lengths, rot a whole number, fa, fs booleans.  The
\* quotient under the square root is taken after dividing both of its terms
\* by rh2 * rv2, which leaves its value as it is; it is not a number when
\* the divisor lam is 0 or the dividend negative.  The result is the array
\* <<center, angles>> of the source, the angles phi1 and phi2 as angles.
\* The values are named in the order of the source from the last line up:
\* rt = <<cosRot, sinRot>>, p = (x, y), lam, fr, t = (xt, yt), vt, ve, phi1.
getEllipse(ps, pe, rh0, rv0, rot0, fa, fs) ==
    LET rot == JsRem(rot0, 360)
        rh == Abs(rh0)
        rv == Abs(rv0)
        dx == ps.x - pe.x
        dy == ps.y - pe.y
    IN  Only({Only({Only({
        IF lam = 0 \/ lam > FracScale
        THEN <<Pt(NaN, NaN), Pt(NaNAngle, NaNAngle)>>
        ELSE Only({Only({Only({Only({Only({
             <<Pt(MulFx(t.x, rt[1]) - MulFx(t.y, rt[2]) + RoundDiv(ps.x + pe.x, 2),
                  MulFx(t.x, rt[2]) + MulFx(t.y, rt[1]) + RoundDiv(ps.y + pe.y, 2)),
               Pt(phi1, AngAdd(phi1, angle(vt, ve)))>> :
             phi1 \in {angle(Pt(FracScale, 0), vt)}}) :
             ve \in {Pt(RoundDiv((-p.x - t.x) * FracScale, rh),
                        RoundDiv((-p.y - t.y) * FracScale, rv))}}) :
             vt \in {Pt(RoundDiv((p.x - t.x) * FracScale, rh),
                        RoundDiv((p.y - t.y) * FracScale, rv))}}) :
             t \in {Pt(RoundDiv(MulFx(rh, fr) * p.y, rv),
                       -RoundDiv(MulFx(rv, fr) * p.x, rh))}}) :
             fr \in {(IF fa = fs THEN -1 ELSE 1)
                     * sqrtFx(RoundDiv((FracScale - lam) * FracScale, lam))}}) :
        lam \in {MulFx(RoundDiv(p.x * FracScale, rh), RoundDiv(p.x * FracScale, rh))
                 + MulFx(RoundDiv(p.y * FracScale, rv), RoundDiv(p.y * FracScale, rv))}}) :
        p \in {Pt(RoundDiv(rt[1] * dx + rt[2] * dy, 2 * FracScale),
                  RoundDiv(rt[1] * dy - rt[2] * dx, 2 * FracScale))}}) :
        rt \in {<<cosTurn(radians(rot)), sinTurn(radians(rot))>>}})

\* ---------------------------------------------------------------- rePath
\* A path element is its pathSegList, a sequence of segments with the
\* fields of the SVG DOM; parsePath makes the command arrays of them.
parsePath(list) ==
    [i \in 1..Len(list) |->
        LET g == list[i]
            cmd == g.letter
        IN  <<cmd>> \o
            (CASE cmd \in {"C", "c"} -> <<g.x1, g.y1, g.x2, g.y2, g.x, g.y>>
               [] cmd \in {"Q", "q"} -> <<g.x1, g.y1, g.x, g.y>>
               [] cmd \in {"M", "m", "L", "l", "T", "t"} -> <<g.x, g.y>>
               [] cmd \in {"A", "a"} ->
                      <<g.r1, g.r2, g.angle, g.largeArcFlag, g.sweepFlag, g.x, g.y>>
               [] cmd \in {"H", "h"} -> <<g.x>>
               [] cmd \in {"V", "v"} -> <<g.y>>
               [] cmd \in {"S", "s"} -> <<g.x2, g.y2, g.x, g.y>>
               [] OTHER -> <<>>)]

\* name == name.toUpperCase()
isUpperCase(name) == name \in {"M", "Q", "T", "C", "S", "A", "L", "H", "V", "Z"}

\* The locals of rePath are a record r: the drawing m, pos, ipos, org and
\* the optional cpos and qpos.  The record also carries the letter and the
\* index j of the command being decoded and a log: one entry for every
\* coordinate group decoded, with the locals before and after the group and
\* the drawer calls made for it.
setOrg(r, name) ==
    [r EXCEPT !.org = IF isUpperCase(name) THEN Pt(0, 0) ELSE r.pos]

Shift(cmd, n) == SubSeq(cmd, n + 1, Len(cmd))

Called(op, args) == [op |-> op, args |-> args]

\* r1 is what the group with the numbers args makes of r
Group(r, r1, args, calls) ==
    [r1 EXCEPT !.log = Append(r.log,
        [letter |-> r.letter, j |-> r.j, args |-> args, pos |-> r.pos,
         ipos |-> r.ipos, cpos |-> r.cpos, qpos |-> r.qpos, calls |-> calls,
         posOut |-> r1.pos, cposOut |-> r1.cpos, qposOut |-> r1.qpos,
         from |-> Len(r.m.pathStr), to |-> Len(r1.m.pathStr)])]

RECURSIVE LineTo(_, _, _)
\* the while loops of the cases M and L
LineTo(r, name, cmd) ==
    IF Len(cmd) > 1
    THEN LET p == Pt(r.org.x + cmd[1], r.org.y + cmd[2])
             r1 == [r EXCEPT !.m = cLine(r.m, r.pos.x, r.pos.y, p.x, p.y), !.pos = p]
             calls == <<Called("cLine", <<r.pos.x, r.pos.y, p.x, p.y>>)>>
         IN  Only({LineTo(setOrg(Group(r, q, SubSeq(cmd, 1, 2), calls), name),
                          name, Shift(cmd, 2)) : q \in {r1}})
    ELSE r

RECURSIVE QuadTo(_, _, _)
QuadTo(r, name, cmd) ==
    IF Len(cmd) > 3
    THEN LET p1 == Pt(r.org.x + cmd[1], r.org.y + cmd[2])
             p2 == Pt(r.org.x + cmd[3], r.org.y + cmd[4])
             r1 == [r EXCEPT !.m = cBezier2(r.m, r.pos.x, r.pos.y, p1.x, p1.y, p2.x, p2.y),
                             !.pos = p2, !.qpos = Some(p1)]
             calls == <<Called("cBezier2",
                               <<r.pos.x, r.pos.y, p1.x, p1.y, p2.x, p2.y>>)>>
         IN  Only({QuadTo(setOrg(Group(r, q, SubSeq(cmd, 1, 4), calls), name),
                          name, Shift(cmd, 4)) : q \in {r1}})
    ELSE r

\* the first control point of T and S: the reflection of the remembered
\* control point through pos, or pos when none is remembered
reflectNone(pos, mem) == pos

reflect(pos, mem) ==
    IF mem = Undefined THEN pos
    ELSE Pt(2 * pos.x - mem[1].x, 2 * pos.y - mem[1].y)

RECURSIVE SmoothQuadTo(_, _, _)
SmoothQuadTo(r, name, cmd) ==
    IF Len(cmd) > 1
    THEN LET p2 == Pt(r.org.x + cmd[1], r.org.y + cmd[2])
             p1 == reflect(r.pos, r.qpos)
             r1 == [r EXCEPT !.m = cBezier2(r.m, r.pos.x, r.pos.y, p1.x, p1.y, p2.x, p2.y),
                             !.pos = p2, !.qpos = Some(p1)]
             calls == <<Called("cBezier2",
                               <<r.pos.x, r.pos.y, p1.x, p1.y, p2.x, p2.y>>)>>
         IN  Only({SmoothQuadTo(setOrg(Group(r, q, SubSeq(cmd, 1, 2), calls), name),
                                name, Shift(cmd, 2)) : q \in {r1}})
    ELSE r

RECURSIVE CubicTo(_, _, _)
CubicTo(r, name, cmd) ==
    IF Len(cmd) > 5
    THEN LET p1 == Pt(r.org.x + cmd[1], r.org.y + cmd[2])
             p2 == Pt(r.org.x + cmd[3], r.org.y + cmd[4])
             p3 == Pt(r.org.x + cmd[5], r.org.y + cmd[6])
             r1 == [r EXCEPT !.m = cBezier3(r.m, r.pos.x, r.pos.y, p1.x, p1.y,
                                            p2.x, p2.y, p3.x, p3.y),
                             !.pos = p3, !.cpos = Some(p2)]
             calls == <<Called("cBezier3", <<r.pos.x, r.pos.y, p1.x, p1.y,
                                             p2.x, p2.y, p3.x, p3.y>>)>>
         IN  Only({CubicTo(setOrg(Group(r, q, SubSeq(cmd, 1, 6), calls), name),
                           name, Shift(cmd, 6)) : q \in {r1}})
    ELSE r

RECURSIVE SmoothCubicTo(_, _, _)
SmoothCubicTo(r, name, cmd) ==
    IF Len(cmd) > 3
    THEN LET p2 == Pt(r.org.x + cmd[1], r.org.y + cmd[2])
             p3 == Pt(r.org.x + cmd[3], r.org.y + cmd[4])
             p1 == reflect(r.pos, r.cpos)
             r1 == [r EXCEPT !.m = cBezier3(r.m, r.pos.x, r.pos.y, p1.x, p1.y,
                                            p2.x, p2.y, p3.x, p3.y),
                             !.pos = p3, !.cpos = Some(p2)]
             calls == <<Called("cBezier3", <<r.pos.x, r.pos.y, p1.x, p1.y,
                                             p2.x, p2.y, p3.x, p3.y>>)>>
         IN  Only({SmoothCubicTo(setOrg(Group(r, q, SubSeq(cmd, 1, 4), calls), name),
                                 name, Shift(cmd, 4)) : q \in {r1}})
    ELSE r

\* what the case A does with an arc from pos to p1 of radii rx and ry
arcKindLine(pos, p1, rx, ry) ==
    IF p1 = pos THEN "skip"
    ELSE IF rx = 0 \/ ry = 0 THEN "line"
    ELSE "ellipse"

arcKind(pos, p1, rx, ry) ==
    IF p1 = pos THEN "skip"
    ELSE IF rx = 0 /\ ry = 0 THEN "skip"
    ELSE IF rx = 0 \/ ry = 0 THEN "line"
    ELSE "ellipse"

RECURSIVE ArcTo(_, _, _)
\* a flag is any number, !! of it its truth; rot reaches cEllipse as it is,
\* a number of radians
ArcTo(r, name, cmd) ==
    IF Len(cmd) > 6
    THEN LET rx == Abs(cmd[1])
             ry == Abs(cmd[2])
             rot == JsRem(cmd[3], 360)
             fa == cmd[4] # 0
             fs == cmd[5] # 0
             p1 == Pt(r.org.x + cmd[6], r.org.y + cmd[7])
             args == SubSeq(cmd, 1, 7)
             rest == Shift(cmd, 7)
             kind == arcKind(r.pos, p1, rx, ry)
             pl == IF ry = 0 THEN Pt(p1.x, r.pos.y) ELSE Pt(r.pos.x, p1.y)
             retval == getEllipse(r.pos, p1, rx, ry, rot, fa, fs)
         IN  IF kind = "skip" THEN ArcTo(Group(r, r, args, <<>>), name, rest)
             ELSE IF kind = "line"
             THEN Only({ArcTo(setOrg(Group(r, q, args,
                                  <<Called("cLine", <<r.pos.x, r.pos.y, pl.x, pl.y>>)>>),
                              name), name, rest) :
                        q \in {[r EXCEPT !.m = cLine(r.m, r.pos.x, r.pos.y, pl.x, pl.y),
                                         !.pos = pl]}})
             ELSE Only({ArcTo(setOrg(Group(r, q[2], args,
                                  <<Called("getEllipse", <<r.pos.x, r.pos.y, p1.x, p1.y,
                                                           rx, ry, rot>>),
                                    Called("cEllipse", <<q[1][1].x, q[1][1].y, rx, ry, rot>>)>>),
                              name), name, rest) :
                        q \in {<<ret1,
                                 [r EXCEPT !.m = cEllipse(r.m, ret1[1].x, ret1[1].y,
                                              rx, ry, Some(radians(rot)),
                                              Some(ret1[2].x), Some(ret1[2].y)),
                                         !.pos = p1]>> :
                               ret1 \in {retval}}})
    ELSE r

RECURSIVE HorizontalTo(_, _, _)
HorizontalTo(r, name, cmd) ==
    IF Len(cmd) > 0
    THEN LET p1 == Pt(r.org.x + cmd[1], r.pos.y)
             r1 == [r EXCEPT !.m = cLine(r.m, r.pos.x, r.pos.y, p1.x, p1.y), !.pos = p1]
             calls == <<Called("cLine", <<r.pos.x, r.pos.y, p1.x, p1.y>>)>>
         IN  Only({HorizontalTo(setOrg(Group(r, q, SubSeq(cmd, 1, 1), calls), name),
                                name, Shift(cmd, 1)) : q \in {r1}})
    ELSE r

RECURSIVE VerticalTo(_, _, _)
VerticalTo(r, name, cmd) ==
    IF Len(cmd) > 0
    THEN LET p1 == Pt(r.pos.x, r.org.y + cmd[1])
             r1 == [r EXCEPT !.m = cLine(r.m, r.pos.x, r.pos.y, p1.x, p1.y), !.pos = p1]
             calls == <<Called("cLine", <<r.pos.x, r.pos.y, p1.x, p1.y>>)>>
         IN  Only({VerticalTo(setOrg(Group(r, q, SubSeq(cmd, 1, 1), calls), name),
                              name, Shift(cmd, 1)) : q \in {r1}})
    ELSE r

\* the case Z with the marker written before the closing line
closePathMarkerFirst(r) ==
    Only({[r EXCEPT !.m = cLine(m1, r.pos.x, r.pos.y, r.ipos.x, r.ipos.y),
                    !.pos = r.ipos] :
          m1 \in {[r.m EXCEPT !.pathStr = @ \o <<Ltr("z")>>]}})

\* the case Z after its memories are unset
closePath(r) ==
    Only({[r EXCEPT !.m = [closed EXCEPT !.pathStr = @ \o <<Ltr("z")>>],
                    !.pos = r.ipos] :
          closed \in {cLine(r.m, r.pos.x, r.pos.y, r.ipos.x, r.ipos.y)}})

\* the body of the for loop of rePath for command j (from 0) of cmds
rePathCmd(r0, j, cmd0) ==
    LET moveMadeAbs == j = 0 /\ cmd0[1] = "m"
        name == IF moveMadeAbs THEN "M" ELSE cmd0[1]
        cmd == Tail(cmd0)
        r == setOrg([r0 EXCEPT !.letter = cmd0[1], !.j = j], name)
        noC == [r EXCEPT !.cpos = Undefined]
        noQ == [r EXCEPT !.qpos = Undefined]
        none == [r EXCEPT !.cpos = Undefined, !.qpos = Undefined]
        moved == [none EXCEPT !.pos = Pt(r.org.x + cmd[1], r.org.y + cmd[2]),
                              !.ipos = Pt(r.org.x + cmd[1], r.org.y + cmd[2])]
    IN  CASE name \in {"M", "m"} ->
                 LineTo(Group(none, moved, SubSeq(cmd, 1, 2), <<>>),
                        IF moveMadeAbs THEN "m" ELSE "M", Shift(cmd, 2))
          [] name \in {"Q", "q"} -> QuadTo(noC, name, cmd)
          [] name \in {"T", "t"} -> SmoothQuadTo(noC, name, cmd)
          [] name \in {"C", "c"} -> CubicTo(noQ, name, cmd)
          [] name \in {"S", "s"} -> SmoothCubicTo(noQ, name, cmd)
          [] name \in {"A", "a"} -> ArcTo(none, name, cmd)
          [] name \in {"L", "l"} -> LineTo(none, name, cmd)
          [] name \in {"H", "h"} -> HorizontalTo(none, name, cmd)
          [] name \in {"V", "v"} -> VerticalTo(none, name, cmd)
          [] name \in {"Z", "z"} ->
                 Only({Group(none, q, <<>>,
                             <<Called("cLine", <<r.pos.x, r.pos.y, r.ipos.x, r.ipos.y>>)>>) :
                       q \in {closePath(none)}})
          [] OTHER -> r

RECURSIVE rePathLoop(_, _, _)
rePathLoop(r, cmds, j) ==
    IF j < Len(cmds)
    THEN Only({rePathLoop(q, cmds, j + 1) : q \in {rePathCmd(r, j, cmds[j + 1])}})
    ELSE r

\* rePath from the command arrays on: the locals it ends with
rePathOn(m, cmds) ==
    rePathLoop([m |-> m, pos |-> Pt(0, 0), ipos |-> Pt(0, 0), cpos |-> Undefined,
                qpos |-> Undefined, org |-> Pt(0, 0), letter |-> "", j |-> 0,
                log |-> <<>>],
               cmds, 0)

rePath(m, e) == rePathOn(m, parsePath(e.pathSegList)).m

\* ------------------------------------------------------- public drawers
\* The svg bindings hand the path string to the library, which makes a path
\* element of it.
finish(m) == [tagName |-> "path", d |-> Some(m.pathStr)]

\* A drawing in progress: the globals, the emissions so far, the random
\* source and the number rn of draws made from it.
Machine(seed) ==
    [C |-> C, pathStr |-> pathStr, trace |-> <<>>, seed |-> seed, rn |-> 0,
     hung |-> FALSE]

\* what stands for the value of a call that does not return
Hangs == [tagName |-> "", d |-> Undefined]

\* the state a top-level call leaves behind
Returns(m, op, args, val) ==
    /\ C' = m.C
    /\ pathStr' = m.pathStr
    /\ trace' = m.trace
    /\ call' = [op |-> op, args |-> args, dirty |-> Len(pathStr) > 0]
    /\ ret' = val
    /\ UNCHANGED <<bound, page>>

\* a top-level call of a pure function
Computes(op, args, val) ==
    /\ call' = [op |-> op, args |-> args, dirty |-> Len(pathStr) > 0]
    /\ ret' = val
    /\ UNCHANGED <<C, pathStr, trace, bound, page>>

Draws(m, op, args) == Returns(m, op, args, IF m.hung THEN Hangs ELSE finish(m))

LineArgs ==
    {<<Fx(0), Fx(0), Fx(100), Fx(0)>>, <<Fx(0), Fx(0), Fx(30), Fx(40)>>,
     <<Fx(100), Fx(0), Fx(30), Fx(40)>>, <<Fx(0), Fx(0), Fx(0), Fx(200)>>,
     <<Fx(200), Fx(10), Fx(0), Fx(10)>>, <<Fx(30), Fx(40), Fx(30), Fx(40)>>,
     <<Fx(5), Fx(5), Fx(155), Fx(5)>>, <<Fx(0), Fx(0), Fx(100), Fx(150)>>}

lib_cLine ==
    \E a \in LineArgs, seed \in Seeds :
        \E m \in {cLine(begin(Machine(seed)), a[1], a[2], a[3], a[4])} :
            Draws(m, "cLine", a)

TrianArgs ==
    {<<Fx(0), Fx(0), Fx(100), Fx(0), Fx(30), Fx(40)>>,
     <<Fx(10), Fx(10), Fx(10), Fx(60), Fx(70), Fx(10)>>}

lib_cTrian ==
    \E a \in TrianArgs, seed \in Seeds :
        \E m \in {cLine(m2, a[5], a[6], a[1], a[2]) :
                  m2 \in {cLine(m1, a[3], a[4], a[5], a[6]) :
                  m1 \in {cLine(begin(Machine(seed)), a[1], a[2], a[3], a[4])}}} :
            Draws(m, "cTrian", a)

\* x0, y0, width, height and the optional rh, rv
RectArgs ==
    {<<Fx(0), Fx(0), Fx(40), Fx(20), Undefined, Undefined>>,
     <<Fx(10), Fx(20), Fx(60), Fx(30), Some(Fx(0)), Some(Fx(0))>>,
     <<Fx(0), Fx(0), Fx(40), Fx(20), Some(Fx(4)), Undefined>>,
     <<Fx(0), Fx(0), Fx(40), Fx(20), Some(Fx(4)), Some(Fx(2))>>,
     <<Fx(0), Fx(0), Fx(40), Fx(20), Some(Fx(0)), Some(Fx(4))>>,
     <<Fx(0), Fx(0), Fx(40), Fx(20), Some(Fx(4)), Some(Fx(0))>>,
     <<Fx(0), Fx(0), Fx(40), Fx(10), Some(Fx(8)), Undefined>>}

lib_cRect ==
    \E a \in RectArgs, seed \in Seeds :
        \E m \in {cRect(begin(Machine(seed)), a[1], a[2], a[3], a[4], a[5], a[6])} :
            Draws(m, "cRect", a)

\* x, y, r and the optional start, end
CircleArgs ==
    {<<Fx(50), Fx(50), Fx(10), Undefined, Undefined>>,
     <<Fx(0), Fx(0), Fx(30), Some(Ang(1, 4)), Some(Ang(3, 4))>>}

lib_cCircle ==
    \E a \in CircleArgs, seed \in Seeds :
        \E m \in {cCircle(begin(Machine(seed)), a[1], a[2], a[3], a[4], a[5])} :
            Draws(m, "cCircle", a)

\* x, y, rh, rv and the optional rot, start, end
EllipseArgs ==
    {<<Fx(50), Fx(50), Fx(20), Fx(10), Undefined, Undefined, Undefined>>,
     <<Fx(50), Fx(50), Fx(10), Fx(10), Some(Ang(1, 12)), Some(Ang(0, 1)), Some(Ang(1, 4))>>,
     <<Fx(0), Fx(0), Fx(30), Fx(20), Some(Ang(1, 4)), Undefined, Undefined>>}

lib_cEllipse ==
    \E a \in EllipseArgs, seed \in Seeds :
        \E m \in {cEllipse(begin(Machine(seed)), a[1], a[2], a[3], a[4], a[5], a[6], a[7])} :
            Draws(m, "cEllipse", a)

Bezier2Args ==
    {<<Fx(0), Fx(0), Fx(50), Fx(50), Fx(100), Fx(0)>>,
     <<Fx(10), Fx(10), Fx(10), Fx(90), Fx(60), Fx(90)>>,
     <<Fx(0), Fx(0), Fx(50), Fx(50), Fx(0), Fx(0)>>}

lib_cBezier2 ==
    \E a \in Bezier2Args, seed \in Seeds :
        \E m \in {cBezier2(begin(Machine(seed)), a[1], a[2], a[3], a[4], a[5], a[6])} :
            Draws(m, "cBezier2", a)

Bezier3Args ==
    {<<Fx(0), Fx(0), Fx(30), Fx(40), Fx(70), Fx(40), Fx(100), Fx(0)>>,
     <<Fx(0), Fx(0), Fx(0), Fx(100), Fx(100), Fx(100), Fx(100), Fx(0)>>,
     <<Fx(0), Fx(0), Fx(50), Fx(50), Fx(-50), Fx(50), Fx(0), Fx(0)>>}

lib_cBezier3 ==
    \E a \in Bezier3Args, seed \in Seeds :
        \E m \in {cBezier3(begin(Machine(seed)), a[1], a[2], a[3], a[4],
                           a[5], a[6], a[7], a[8])} :
            Draws(m, "cBezier3", a)

\* ------------------------------------------------------------------ magic
\* the segments of a path element
NoSeg ==
    [letter |-> "", x |-> 0, y |-> 0, x1 |-> 0, y1 |-> 0, x2 |-> 0, y2 |-> 0,
     r1 |-> 0, r2 |-> 0, angle |-> 0, largeArcFlag |-> 0, sweepFlag |-> 0]
SegTo(l, x, y) == [NoSeg EXCEPT !.letter = l, !.x = Fx(x), !.y = Fx(y)]
SegQ(l, x1, y1, x, y) == [SegTo(l, x, y) EXCEPT !.x1 = Fx(x1), !.y1 = Fx(y1)]
SegS(l, x2, y2, x, y) == [SegTo(l, x, y) EXCEPT !.x2 = Fx(x2), !.y2 = Fx(y2)]
SegC(l, x1, y1, x2, y2, x, y) ==
    [SegQ(l, x1, y1, x, y) EXCEPT !.x2 = Fx(x2), !.y2 = Fx(y2)]
SegA(l, r1, r2, a, fa, fs, x, y) ==
    [SegTo(l, x, y) EXCEPT !.r1 = Fx(r1), !.r2 = Fx(r2), !.angle = a,
                           !.largeArcFlag = fa, !.sweepFlag = fs]
SegZ(l) == [NoSeg EXCEPT !.letter = l]

\* An element of the document: its tag name and the attributes its tag has.
Path(segs) == [tagName |-> "path", pathSegList |-> segs]

Elements ==
    {Path(<<SegTo("M", 0, 0), SegTo("L", 100, 0), SegTo("L", 100, 50), SegZ("Z"),
            SegTo("L", 30, 40)>>),
     Path(<<SegTo("m", 10, 10), SegTo("l", 20, 0), SegTo("v", 0, 20),
            SegTo("h", -20, 0), SegZ("z")>>),
     Path(<<SegTo("M", 0, 0), SegQ("Q", 50, 50, 100, 0), SegTo("T", 200, 0),
            SegTo("M", 10, 60), SegTo("L", 60, 60)>>),
     Path(<<SegTo("M", 10, 0), SegA("A", 10, 10, 0, 0, 1, 0, 10)>>),
     Path(<<SegTo("M", 0, 0), SegC("C", 0, 50, 50, 50, 50, 0),
            SegS("s", 50, -50, 50, 0)>>),
     [tagName |-> "rect", x |-> Fx(0), y |-> Fx(0), width |-> Fx(40),
      height |-> Fx(20), rx |-> Fx(0), ry |-> Fx(4)],
     [tagName |-> "line", x1 |-> Fx(0), y1 |-> Fx(0), x2 |-> Fx(100), y2 |-> Fx(0)],
     [tagName |-> "g"]}

reRect(m, e) == cRect(m, e.x, e.y, e.width, e.height, Some(e.rx), Some(e.ry))
reCircle(m, e) == cCircle(m, e.cx, e.cy, e.r, Undefined, Undefined)
reEllipse(m, e) == cEllipse(m, e.cx, e.cy, e.rx, e.ry, Undefined, Undefined, Undefined)
reLine(m, e) == cLine(m, e.x1, e.y1, e.x2, e.y2)

RECURSIVE rePolyline(_, _, _)
\* the loop of rePolyline and rePolygon from point j (from 1) on
rePolyline(m, points, j) ==
    IF j < Len(points)
    THEN Only({rePolyline(m1, points, j + 1) :
               m1 \in {cLine(m, points[j].x, points[j].y,
                             points[j + 1].x, points[j + 1].y)}})
    ELSE m

rePolygon(m, points) ==
    Only({cLine(m1, points[Len(points)].x, points[Len(points)].y,
                points[1].x, points[1].y) :
          m1 \in {rePolyline(m, points, 1)}})

\* the function walk of C.magic on an element e without children
walk(m0, e) ==
    LET m == begin(m0)
    IN  CASE e.tagName = "rect" -> reRect(m, e)
          [] e.tagName = "circle" -> reCircle(m, e)
          [] e.tagName = "ellipse" -> reEllipse(m, e)
          [] e.tagName = "line" -> reLine(m, e)
          [] e.tagName = "polyline" -> rePolyline(m, e.points, 1)
          [] e.tagName = "polygon" -> rePolygon(m, e.points)
          [] e.tagName = "path" -> rePath(m, e)
          [] OTHER -> m

BasicShapes == {"rect", "circle", "ellipse", "line", "polyline", "polygon"}

\* the ids of the elements of the documents
MaxId == 40
Ids == 1..MaxId

\* no path has replaced the element
NoPath == [made |-> FALSE, walked |-> FALSE, d |-> <<>>]

\* a document C.magic has not been called on
Untouched == [walked |-> {}, paths |-> [k \in Ids |-> NoPath]]

NotSp(tok) == tok # Sp

RECURSIVE segsFrom(_, _)
\* the segments of the commands M, Q and z of the tokens s from index i on;
\* a number of the path string counts 1/roundFactor
segsFrom(s, i) ==
    LET n(k) == s[i + k].v * (Res \div roundFactor)
        seg(l, x, y) == [NoSeg EXCEPT !.letter = l, !.x = x, !.y = y]
    IN  IF i > Len(s) THEN <<>>
        ELSE CASE s[i] = Ltr("M") -> <<seg("M", n(1), n(2))>> \o segsFrom(s, i + 3)
               [] s[i] = Ltr("Q") ->
                      <<[seg("Q", n(3), n(4)) EXCEPT !.x1 = n(1), !.y1 = n(2)]>>
                          \o segsFrom(s, i + 5)
               [] OTHER -> <<SegZ("z")>> \o segsFrom(s, i + 1)

\* the pathSegList the browser makes of the d attribute the library has set
pathSegList(d) == segsFrom(SelectSeq(d, NotSp), 1)

\* The function walk of C.magic run on one element e of a drawing that
\* unWrap has found; what it leaves of the element is its tag name and the
\* d attribute it has set (undefined when it sets none).  C_magic below is
\* the whole of C.magic, with unWrap and the walk over the children.
magic ==
    \E e \in Elements, seed \in Seeds :
        \E m \in {walk(Machine(seed), e)} :
            Returns(m, "magic", <<e>>,
                    [tagName |-> IF e.tagName \in BasicShapes THEN "path" ELSE e.tagName,
                     d |-> IF Len(m.pathStr) > 0 THEN Some(m.pathStr) ELSE Undefined])

\* --------------------------------------------------------------- bindings
\* the objects of the libraries that get the drawers at load time, the
\* canvas contexts of the page, and the library object COMIC itself
Libraries == {"raphael", "svg", "d3"}
Contexts == {"ctx1", "ctx2"}
Self == "self"

\* no function has been assigned and no object has drawers
Unbound == [begin |-> "none", path |-> "none", finish |-> "none", libs |-> {}]

\* bindTo(libName, lib): lib gets the drawers, which call whatever the
\* module variables begin, path and finish hold as they run; the variables
\* are assigned for the library named
bindTo(b, libName, lib) ==
    IF libName = "canvas"
    THEN [begin |-> "canvas", path |-> "canvas", finish |-> "canvas",
          libs |-> b.libs \cup {lib}]
    ELSE [begin |-> "svg", path |-> "svg",
          finish |-> IF libName \in Libraries THEN libName ELSE b.finish,
          libs |-> b.libs \cup {lib}]

\* the bindings made as the script is loaded in a page that has the
\* libraries env: C.init binds nothing, as the module variable context is
\* undefined; then Raphael.fn, the object SVG.js is extended by, the two
\* prototypes of D3 and COMIC are bound in this order
loadBindings(env) ==
    LET b1 == IF "raphael" \in env THEN bindTo(Unbound, "raphael", "raphael") ELSE Unbound
        b2 == IF "svg" \in env THEN bindTo(b1, "svg", "svg") ELSE b1
        b3 == IF "d3" \in env
              THEN bindTo(bindTo(b2, "d3", "d3"), "d3", "d3.enter")
              ELSE b2
    IN  bindTo(b3, Self, Self)

\* ------------------------------------------------------------------- init
\* C.init(options) without a context: every key of options is copied
initWith(Opts) ==
    \E options \in Opts :
        /\ C' = [k \in DOMAIN C \cup DOMAIN options |->
                    IF k \in DOMAIN options THEN options[k] ELSE C[k]]
        /\ call' = [op |-> "init", args |-> <<options>>, dirty |-> Len(pathStr) > 0]
        /\ ret' = Undefined
        /\ UNCHANGED <<pathStr, trace, bound, page>>

Options == {[fsteps |-> Fx(25)]}

init == initWith(Options)

\* the state after the script has run in a page that has the libraries env
Loaded(env) ==
    /\ C = [ff |-> Fx(ff), ffc |-> Fx(ff) \div 20, fsteps |-> Fx(fsteps),
            msteps |-> msteps, pathPos |-> Pt(0, 0)]
    /\ pathStr = <<>>
    /\ call = [op |-> "load", args |-> <<>>, dirty |-> FALSE]
    /\ trace = <<>>
    /\ ret = Undefined
    /\ bound = loadBindings(env)
    /\ page = Untouched

\* a page with Raphael
Init == Loaded({"raphael"})

Next ==
    \/ init
    \/ lib_cLine
    \/ lib_cTrian
    \/ lib_cRect
    \/ lib_cCircle
    \/ lib_cEllipse
    \/ lib_cBezier2
    \/ lib_cBezier3
    \/ magic

Spec == Init /\ [][Next]_vars

\* ------------------------------------------------- lines under any options
LineOptions ==
    {[fsteps |-> Fx(25)], [fsteps |-> Fx(50)], [fsteps |-> Fx(100)],
     [msteps |-> 1], [msteps |-> 2], [msteps |-> 4]}

initLine == initWith(LineOptions)

NextLine ==
    \/ initLine
    \/ lib_cLine

SpecLine == Init /\ [][NextLine]_vars

\* ------------------------------------------------ the functions on their own
FuzzValues == {-Fx(3), 0, 7, Fx(50), Fx(100) + 1}
FuzzFactors == {0, 1, 3, Fx(4), Fx(8), 57}

call_fuzz ==
    \E val \in FuzzValues, f \in FuzzFactors, u \in 0..(RandDen - 1) :
        Computes("fuzz", <<val, f, u>>, fuzz(val, f, u))

SpecFuzz == Init /\ [][call_fuzz]_vars

Coords == {Pt(Fx(0), Fx(0)), Pt(Fx(10), Fx(20)), Pt(Fx(30), Fx(0)), Pt(Fx(-5), Fx(7))}

\* control points of quadratic and of cubic curves
Curves ==
    {<<a, b, c>> : a \in {Pt(Fx(0), Fx(0)), Pt(Fx(10), Fx(20))}, b \in Coords,
                   c \in {Pt(Fx(30), Fx(0)), Pt(Fx(-5), Fx(7))}}
    \cup {<<Pt(Fx(0), Fx(0)), b, c, Pt(Fx(30), Fx(0))>> :
             b \in {Pt(Fx(10), Fx(20)), Pt(Fx(-5), Fx(7))}, c \in Coords}

\* the split parameter t0 as the fraction tn / td
Params == {<<0, 1>>, <<1, 4>>, <<1, 3>>, <<1, 2>>, <<2, 3>>, <<3, 4>>, <<1, 1>>}

call_bsplit ==
    \E points \in Curves, t \in Params :
        Computes("bsplit", <<points, t[1], t[2]>>, bsplit(points, t[1], t[2]))

SpecBsplit == Init /\ [][call_bsplit]_vars

\* ps, pe, rh, rv of an arc; rot, fa and fs are drawn apart
Chords ==
    {<<Pt(Fx(10), Fx(0)), Pt(Fx(0), Fx(10)), Fx(10), Fx(10)>>,
     <<Pt(Fx(50), Fx(40)), Pt(Fx(70), Fx(40)), Fx(20), Fx(20)>>,
     <<Pt(Fx(0), Fx(0)), Pt(Fx(12), Fx(16)), Fx(10), Fx(10)>>,
     <<Pt(Fx(20), Fx(0)), Pt(Fx(0), Fx(10)), Fx(20), Fx(10)>>,
     <<Pt(Fx(0), Fx(0)), Pt(Fx(30), Fx(0)), Fx(20), Fx(10)>>,
     <<Pt(Fx(0), Fx(0)), Pt(Fx(12), Fx(16)), Fx(6), Fx(6)>>}

Rotations == {0, 30, 90, 180, -45}

call_getEllipse ==
    \E c \in Chords, rot \in Rotations, fa \in BOOLEAN, fs \in BOOLEAN :
        Computes("getEllipse", <<c[1], c[2], c[3], c[4], rot, fa, fs>>,
                 getEllipse(c[1], c[2], c[3], c[4], rot, fa, fs))

SpecArc == Init /\ [][call_getEllipse]_vars

\* ------------------------------------------------ init under any options
\* options with recognized keys, with the key of a member of C and with a
\* key C does not have
AnyOptions ==
    {[precision |-> 1], [foo |-> 1], [pathPos |-> Pt(Fx(7), Fx(7))],
     [ff |-> Fx(4), msteps |-> 2], [fsteps |-> Fx(25)]}

initAny == initWith(AnyOptions)

NextInit ==
    \/ initAny
    \/ lib_cLine

SpecInit == Init /\ [][NextInit]_vars

\* --------------------------------------------- the drawers under fsteps 0
ZeroOptions == {[fsteps |-> 0], [fsteps |-> Fx(fsteps)]}

initZero == initWith(ZeroOptions)

NextZero ==
    \/ initZero
    \/ lib_cLine
    \/ lib_cTrian
    \/ lib_cRect
    \/ lib_cCircle
    \/ lib_cEllipse
    \/ lib_cBezier2
    \/ lib_cBezier3

SpecZero == Init /\ [][NextZero]_vars

\* ------------------------------------------------------ paths on their own
\* Path data of three segments: a move, any segment, and a segment that
\* shows what the second has left of the position and the memories.
PathSegs ==
    {SegTo("L", 30, 10), SegTo("l", 20, 0), SegTo("H", 30, 0), SegTo("h", 20, 0),
     SegTo("V", 0, 30), SegTo("v", 0, 20), SegQ("Q", 20, 30, 40, 10),
     SegQ("q", 10, 20, 30, 0), SegC("C", 10, 30, 30, 30, 40, 10),
     SegC("c", 0, 20, 20, 20, 30, 0), SegS("S", 30, 30, 40, 10),
     SegS("s", 20, 20, 30, 0), SegTo("T", 40, 10), SegTo("t", 30, 0),
     SegA("A", 10, 10, 0, 0, 1, 20, 20), SegA("a", 10, 10, 0, 0, 1, 10, 10),
     SegA("A", 10, 10, 0, 0, 1, 10, 10), SegA("a", 10, 10, 0, 0, 1, 0, 0),
     SegA("A", 0, 0, 0, 0, 1, 30, 30), SegA("A", 0, 10, 0, 0, 1, 30, 30),
     SegA("a", 10, 0, 0, 0, 1, 20, 20), SegZ("Z"), SegZ("z"),
     SegTo("M", 50, 50), SegTo("m", 40, 40)}

Smooth == {SegTo("t", 20, 0), SegS("s", 10, 10, 20, 0)}

Turns ==
    {SegTo("l", 20, 0), SegTo("h", 20, 0), SegQ("q", 10, 20, 30, 0),
     SegTo("M", 50, 50), SegTo("m", 40, 40), SegA("a", 0, 10, 0, 1, 0, 10, 10)}

\* arcs of an ellipse that is turned by 30 and by -45 degrees
Rotated ==
    {SegA("A", 20, 10, 30, 0, 1, 20, 10), SegA("a", 20, 10, -45, 0, 1, 10, 0)}

PathLists ==
    {<<SegTo("M", 10, 10), b, c>> : b \in PathSegs, c \in Smooth}
    \cup {<<SegTo("M", 10, 10), b>> : b \in Rotated}
    \cup {<<SegTo("m", 10, 10), b, SegZ("z")>> : b \in Turns}
    \cup {<<SegTo("M", 10, 10), b, SegTo("l", 10, 10), SegZ("Z")>> : b \in Turns}
    \cup {<<SegTo("M", 0, 0), SegTo("L", 10, 0), SegTo("L", 10, 10), SegZ("Z")>>}

\* rePath as walk calls it on a path element, after begin()
magic_path ==
    \E list \in PathLists, seed \in Seeds :
        \E r \in {rePathOn(begin(Machine(seed)), parsePath(list))} :
            Returns(r.m, "rePath", <<parsePath(list)>>,
                    [tagName |-> "path",
                     d |-> IF Len(r.m.pathStr) > 0 THEN Some(r.m.pathStr) ELSE Undefined,
                     log |-> r.log])

\* Command arrays with more than one coordinate group, which the while
\* loops of rePath decode; parsePath makes one group of every segment.
Fxs(s) == [i \in DOMAIN s |-> Fx(s[i])]

ArcGroup(r1, r2, a, fa, fs, x, y) == <<Fx(r1), Fx(r2), a, fa, fs, Fx(x), Fx(y)>>

GroupedCommands ==
    {<<<<"M">> \o Fxs(<<10, 10, 30, 10, 30, 30>>)>>,
     <<<<"m">> \o Fxs(<<10, 10, 20, 0, 0, 20>>)>>,
     <<<<"M">> \o Fxs(<<10, 10>>), <<"M">> \o Fxs(<<20, 20, 40, 20, 40, 40>>)>>,
     <<<<"M">> \o Fxs(<<10, 10>>), <<"m">> \o Fxs(<<10, 10, 20, 0, 0, 20>>)>>,
     <<<<"M">> \o Fxs(<<10, 10>>), <<"L">> \o Fxs(<<30, 10, 30, 30>>)>>,
     <<<<"M">> \o Fxs(<<10, 10>>), <<"l">> \o Fxs(<<20, 0, 0, 20>>)>>,
     <<<<"M">> \o Fxs(<<10, 10>>), <<"h">> \o Fxs(<<20, 10>>), <<"v">> \o Fxs(<<10, 10>>)>>,
     <<<<"M">> \o Fxs(<<10, 10>>), <<"q">> \o Fxs(<<10, 20, 20, 0, 10, 20, 20, 0>>)>>,
     <<<<"M">> \o Fxs(<<10, 10>>), <<"q">> \o Fxs(<<10, 20, 20, 0>>),
       <<"t">> \o Fxs(<<20, 0, 20, 0>>)>>,
     <<<<"M">> \o Fxs(<<10, 10>>), <<"c">> \o Fxs(<<0, 20, 20, 20, 30, 0>>),
       <<"s">> \o Fxs(<<20, 20, 30, 0, 20, 20, 30, 0>>)>>,
     <<<<"M">> \o Fxs(<<10, 10>>),
       <<"a">> \o ArcGroup(10, 10, 0, 0, 1, 0, 0) \o ArcGroup(0, 0, 0, 0, 1, 10, 10)
              \o ArcGroup(0, 10, 0, 0, 1, 10, 10) \o ArcGroup(10, 10, 0, 0, 1, 10, 10)>>}

\* the decoding of rePath on command arrays given as they are
call_rePathOn ==
    \E cmds \in GroupedCommands, seed \in Seeds :
        \E r \in {rePathOn(begin(Machine(seed)), cmds)} :
            Returns(r.m, "rePathOn", <<cmds>>,
                    [tagName |-> "path",
                     d |-> IF Len(r.m.pathStr) > 0 THEN Some(r.m.pathStr) ELSE Undefined,
                     log |-> r.log])

NextPath ==
    \/ magic_path
    \/ call_rePathOn

SpecPath == Init /\ [][NextPath]_vars

\* ------------------------------------------------------------ documents
\* An object handed to C.magic is a record of the properties it has: an
\* array has items; an element has an id (its identity), a tagName and its
\* children, a shape also its attributes; a wrapper has a node, an embedding
\* object a contentDocument; an object may know a parent.
Has(e, k) == k \in DOMAIN e

NoObject == [undefined |-> TRUE]

Node(id, tag, kids) == [id |-> id, tagName |-> tag, children |-> kids]

LineNode(id) ==
    [id |-> id, tagName |-> "line", children |-> <<>>,
     x1 |-> Fx(0), y1 |-> Fx(0), x2 |-> Fx(20), y2 |-> Fx(10)]

RectNode(id) ==
    [id |-> id, tagName |-> "rect", children |-> <<>>, x |-> Fx(0), y |-> Fx(0),
     width |-> Fx(20), height |-> Fx(10), rx |-> Fx(0), ry |-> Fx(0)]

isArray(e) == Has(e, "items")

RECURSIVE unArray(_)
unArray(e) ==
    IF isArray(e)
    THEN IF Len(e.items) = 0 THEN NoObject ELSE unArray(e.items[1])
    ELSE e

unCD(e) == IF Has(e, "contentDocument") THEN e.contentDocument ELSE e

unNode(e) == IF Has(e, "node") /\ Has(e.node, "tagName") THEN e.node ELSE e

checkTag(e) == Has(e, "tagName") /\ e.tagName \in {"svg", "g"}

NoDrawing == "error: no drawing element given"
TypeError == "TypeError"

Found(e) == [error |-> "", e |-> e]
Throws(msg) == [error |-> msg, e |-> NoObject]

RECURSIVE firstChild(_, _)
\* the while loop of unWrap over e.children from index i (from 1) on: the
\* first child that, taken out of its node, has a valid tag
firstChild(e, i) ==
    IF i > Len(e.children) THEN Throws(NoDrawing)
    ELSE IF checkTag(unNode(e.children[i])) THEN Found(unNode(e.children[i]))
    ELSE firstChild(e, i + 1)

\* what unWrap does when nothing is found and e.parent is an object: it
\* reads e.children[i] behind the last child, or of an e without children,
\* and the property it then asks of undefined is a TypeError
lookInParent(e) == Throws(TypeError)

unWrap(e0) ==
    LET a == unArray(e0)
        e == Only({unNode(unCD(x)) : x \in {a}})
        child == IF Has(e, "children") THEN firstChild(e, 1) ELSE Throws(NoDrawing)
    IN  IF a = NoObject THEN Throws(TypeError)
        ELSE IF checkTag(e) THEN Found(e)
        ELSE IF child.error = "" THEN child
        ELSE IF Has(e, "parent") THEN lookInParent(e)
        ELSE Throws(NoDrawing)

KnownTags == BasicShapes \cup {"path", "g", "svg"}

\* The state of a call of C.magic: the drawing m, the ids of the elements
\* marked as walked, the paths that have replaced elements, the changes
\* made to the document in their order (an element replaced by a path, a d
\* attribute set), the ids of the elements walk has come to, in their order,
\* the error thrown if any and the id of the element returned.  The path
\* that has replaced an element stands in its place among the children of
\* its parent and is known by the id of the element; it is a new element,
\* which has no property walked.
RECURSIVE walkTree(_, _)
RECURSIVE walkChildren(_, _, _)
RECURSIVE C_magic(_, _)
RECURSIVE magicRest(_, _, _)

\* the for loop of walk over the children of e from index i (from 1) on
walkChildren(st, e, i) ==
    IF i > Len(e.children) THEN st
    ELSE LET p == st.paths[e.children[i].id]
             c == IF p.made
                  THEN [id |-> e.children[i].id, tagName |-> "path", children |-> <<>>,
                        pathSegList |-> pathSegList(p.d)]
                  ELSE e.children[i]
             hasWalked == IF p.made THEN p.walked ELSE c.id \in st.walked
             marked == IF p.made THEN [st EXCEPT !.paths[c.id].walked = TRUE]
                       ELSE [st EXCEPT !.walked = @ \cup {c.id}]
         IN  IF hasWalked THEN walkChildren(st, e, i + 1)
             ELSE IF c.tagName \in KnownTags
             THEN Only({walkChildren(s1, e, i + 1) : s1 \in {walkTree(marked, c)}})
             ELSE walkChildren(marked, e, i + 1)

\* walk on e: its children, then the element itself
walkTree(st, e) ==
    Only({Only({[s1 EXCEPT
                   !.m = m1,
                   !.visits = Append(@, e.id),
                   !.paths[e.id] =
                       IF e.tagName \in BasicShapes
                       THEN [made |-> TRUE, walked |-> FALSE, d |-> m1.pathStr]
                       ELSE IF @.made /\ Len(m1.pathStr) > 0
                       THEN [@ EXCEPT !.d = m1.pathStr]
                       ELSE @,
                   !.changes =
                       IF e.tagName \in BasicShapes \/ Len(m1.pathStr) > 0
                       THEN Append(@, [id |-> e.id,
                                       replaced |-> e.tagName \in BasicShapes,
                                       d |-> IF Len(m1.pathStr) > 0
                                             THEN Some(m1.pathStr) ELSE Undefined])
                       ELSE @] :
                m1 \in {walk(s1.m, e)}}) :
          s1 \in {walkChildren(st, e, 1)}})

\* the for loop of C.magic over svgs[i] from index i (from 1 for svgs[0]) on
magicRest(st, list, i) ==
    IF i > Len(list) \/ st.error # "" THEN st
    ELSE LET u == unWrap(list[i])
         IN  IF u.error # "" THEN [st EXCEPT !.error = u.error]
             ELSE Only({magicRest(s1, list, i + 1) : s1 \in {C_magic(st, u.e)}})

C_magic(st, svgs) ==
    LET list == IF isArray(svgs) THEN svgs.items ELSE <<svgs>>
        u == IF Len(list) = 0 THEN Throws(TypeError) ELSE unWrap(list[1])
    IN  Only({IF s1.error # "" THEN s1
              ELSE IF u.error # "" THEN [s1 EXCEPT !.error = u.error]
              ELSE [walkTree(s1, u.e) EXCEPT !.value = u.e.id] :
              s1 \in {magicRest([st EXCEPT !.value = 0], list, 2)}})

\* The objects: drawings, wrappers of drawings, and objects in which there
\* is no drawing to find.  No element is handed over twice in a list.
Drawing == Node(1, "svg", <<LineNode(2)>>)
Group2 == Node(3, "g", <<RectNode(4), Node(5, "text", <<LineNode(6)>>)>>)
Division == Node(7, "div", <<>>)
Holder == Node(8, "div", <<Node(9, "p", <<>>), Node(10, "svg", <<LineNode(11)>>),
                           Node(12, "g", <<>>)>>)
Wrapper == [node |-> Node(13, "svg", <<Node(14, "g", <<LineNode(15)>>)>>)]
Embedding == [contentDocument |-> [children |-> <<Node(16, "svg", <<RectNode(17)>>)>>]]
Orphan == LineNode(18)
Child == [id |-> 19, tagName |-> "rect", children |-> <<>>,
          parent |-> Node(20, "svg", <<>>)]
Stray == [id |-> 21, tagName |-> "rect", children |-> <<>>,
          parent |-> Node(22, "div", <<>>)]

Items == {Drawing, Group2, Division, Holder, Wrapper, Embedding, Orphan, Child, Stray}

Inputs ==
    Items
    \cup {[items |-> <<p[1], p[2]>>] :
              p \in {q \in Items \X {Drawing, Division, Child} : q[1] # q[2]}}
    \cup {[items |-> <<>>], [items |-> <<[items |-> <<Drawing>>], Group2, Division>>],
          [items |-> <<Drawing, Group2, Holder>>]}

\* COMIC.magic(svgs)
lib_magic ==
    \E svgs \in Inputs, seed \in Seeds :
        \E s \in {C_magic([m |-> Machine(seed), walked |-> {},
                           paths |-> Untouched.paths, changes |-> <<>>,
                           visits |-> <<>>, error |-> "", value |-> 0], svgs)} :
            Returns(s.m, "magic", <<svgs>>,
                    [error |-> s.error,
                     value |-> IF s.error = "" THEN s.value ELSE 0,
                     changes |-> s.changes])

\* unWrap on its own
call_unWrap ==
    \E e \in Items \cup {[items |-> <<>>], [items |-> <<[items |-> <<Holder>>], Drawing>>]} :
        \E u \in {unWrap(e)} :
            Computes("unWrap", <<e>>,
                     [error |-> u.error,
                      value |-> IF u.error = "" THEN u.e.id ELSE 0,
                      changes |-> <<>>])

NextDom ==
    \/ lib_magic
    \/ call_unWrap

SpecDom == Init /\ [][NextDom]_vars

\* ------------------------------------------------- magic on the same page
\* a drawing with a path, a line, a rect in a group and a line in a text
Sheet ==
    Node(30, "svg",
         <<[id |-> 31, tagName |-> "path", children |-> <<>>,
            pathSegList |-> <<SegTo("M", 0, 0), SegTo("L", 20, 0)>>],
           LineNode(32),
           Node(33, "g", <<RectNode(34)>>),
           Node(35, "text", <<LineNode(36)>>)>>)

PageInputs == {Drawing, Group2, Sheet, [items |-> <<Drawing, Sheet>>]}

\* COMIC.magic(svgs) on drawings of the page, which keep what earlier calls
\* have made of them
page_magic ==
    \E svgs \in PageInputs, seed \in Seeds :
        \E s \in {C_magic([m |-> Machine(seed), walked |-> page.walked,
                           paths |-> page.paths, changes |-> <<>>,
                           visits |-> <<>>, error |-> "", value |-> 0], svgs)} :
            /\ C' = s.m.C
            /\ pathStr' = s.m.pathStr
            /\ trace' = s.m.trace
            /\ page' = [walked |-> s.walked, paths |-> s.paths]
            /\ call' = [op |-> "page.magic", args |-> <<svgs>>, dirty |-> Len(pathStr) > 0]
            /\ ret' = [error |-> s.error,
                       value |-> IF s.error = "" THEN s.value ELSE 0,
                       changes |-> s.changes, visits |-> s.visits, before |-> page]
            /\ UNCHANGED bound

SpecPage == Init /\ [][page_magic]_vars

\* ---------------------------------------------------- drawers and bindings
\* C.init(options) with any options: every key is copied, and when the value
\* of the key context is an object the drawers are bound to C.context; the
\* string "2d" is a value that is no object
ContextOptions ==
    {[context |-> "ctx1"], [context |-> "ctx2"], [context |-> "ctx1", ff |-> Fx(4)],
     [context |-> "2d"], [ff |-> Fx(4)]}

initContext(options, op, args) ==
    /\ C' = [k \in DOMAIN C \cup DOMAIN options |->
                IF k \in DOMAIN options THEN options[k] ELSE C[k]]
    /\ bound' = IF Has(options, "context") /\ options.context \in Contexts
                THEN bindTo(bound, "canvas", options.context)
                ELSE bound
    /\ call' = [op |-> op, args |-> args, dirty |-> Len(pathStr) > 0]
    /\ ret' = "COMIC"
    /\ UNCHANGED <<pathStr, trace, page>>

C_init == \E options \in ContextOptions : initContext(options, "init", <<options>>)

C_ctx == \E context \in Contexts : initContext([context |-> context], "ctx", <<context>>)

\* the methods the functions of the bindings call on this
Methods(this) ==
    CASE this \in Contexts -> {"beginPath", "moveTo", "quadraticCurveTo", "stroke"}
      [] this \in {"raphael", "svg"} -> {"path"}
      [] this \in {"d3", "d3.enter"} -> {"append"}
      [] OTHER -> {}

\* what begin.call(this) needs of this
beginCalls == IF bound.begin = "canvas" THEN {"beginPath"} ELSE {}

\* what finish.call(this) needs of this
finishCalls ==
    CASE bound.finish = "canvas" -> {"stroke"}
      [] bound.finish \in {"raphael", "svg"} -> {"path"}
      [] bound.finish = "d3" -> {"append"}
      [] OTHER -> {}

\* the drawer cLine of the object this: begin, the private cLine and finish
\* as the module variables hold them; a call of a method this does not have
\* throws, and what was done before it remains
this_cLine ==
    \E this \in bound.libs, seed \in Seeds :
        LET a == <<Fx(0), Fx(0), Fx(30), Fx(40)>>
            args == <<this>> \o a
        IN  IF ~(beginCalls \subseteq Methods(this))
            THEN /\ call' = [op |-> "this.cLine", args |-> args, dirty |-> Len(pathStr) > 0]
                 /\ ret' = [error |-> TypeError, value |-> Undefined,
                            used |-> [begin |-> bound.begin, path |-> "", finish |-> ""]]
                 /\ trace' = <<>>
                 /\ UNCHANGED <<C, pathStr, bound, page>>
            ELSE \E m \in {cLine(IF bound.begin = "svg" THEN begin(Machine(seed))
                                  ELSE Machine(seed), a[1], a[2], a[3], a[4])} :
                     Returns(m, "this.cLine", args,
                             [error |-> IF finishCalls \subseteq Methods(this)
                                        THEN "" ELSE TypeError,
                              value |-> CASE ~(finishCalls \subseteq Methods(this)) -> Undefined
                                          [] bound.finish = "canvas" -> Some(this)
                                          [] bound.finish = "none" -> Undefined
                                          [] OTHER -> Some(finish(m)),
                              used |-> [begin |-> bound.begin, path |-> bound.path,
                                        finish |-> bound.finish]])

InitBind == \E env \in SUBSET Libraries : Loaded(env)

NextBind ==
    \/ C_init
    \/ C_ctx
    \/ this_cLine

SpecBind == InitBind /\ [][NextBind]_vars

\* ================================================================ properties
PublicDrawers ==
    {"cLine", "cTrian", "cRect", "cCircle", "cEllipse", "cBezier2", "cBezier3"}

\* what an emission e of the history wrote, and what a MoveTo and a
\* QuadraticCurveTo of it read like
Written(e) == SubSeq(pathStr, e.preLen + 1, e.postLen)
MoveTo(e) == <<Ltr("M"), Sp, Num(round(e.x0)), Sp, Num(round(e.y0)), Sp>>
QuadraticCurveTo(e) ==
    <<Ltr("Q"), Sp, Num(round(e.cx)), Sp, Num(round(e.cy)), Sp,
      Num(round(e.x1)), Sp, Num(round(e.y1))>>

\* the descriptor was empty, or the pen was not at the rounded (x0, y0)
Moves(e) ==
    \/ e.preLen = 0
    \/ Differ(round(e.x0), e.prePos.x)
    \/ Differ(round(e.y0), e.prePos.y)

CountOf(letter) == Cardinality({i \in DOMAIN pathStr : pathStr[i] = Ltr(letter)})

\* C1: every emission wrote a MoveTo to the rounded (x0, y0) followed by the
\* QuadraticCurveTo if the descriptor was empty or the rounded (x0, y0)
\* differed from the pen position, and the QuadraticCurveTo alone otherwise.
C1_MoveToIffNeeded ==
    \A i \in DOMAIN trace :
        Written(trace[i]) = IF Moves(trace[i])
                            THEN MoveTo(trace[i]) \o QuadraticCurveTo(trace[i])
                            ELSE QuadraticCurveTo(trace[i])

\* a build in which a later emission moved the pen and another did not
C1_Witness ==
    \E i \in DOMAIN trace, j \in DOMAIN trace :
        /\ trace[i].preLen > 0 /\ Moves(trace[i])
        /\ ~Moves(trace[j])
        /\ Written(trace[i]) = MoveTo(trace[i]) \o QuadraticCurveTo(trace[i])
        /\ Written(trace[j]) = QuadraticCurveTo(trace[j])

\* the pen position is the rounded endpoint of the last emitted segment
PenAtLastEndpoint ==
    Len(trace) > 0 =>
        C.pathPos = Pt(round(trace[Len(trace)].x1), round(trace[Len(trace)].y1))

\* the place of the last token at or before place k that is not a close
\* marker z (0 if there is none)
SkipClose(k) ==
    IF \E j \in 1..k : pathStr[j] # Ltr("z")
    THEN CHOOSE j \in 1..k :
             /\ pathStr[j] # Ltr("z")
             /\ \A l \in (j + 1)..k : pathStr[l] = Ltr("z")
    ELSE 0

\* the command that ends at place k is a MoveTo or a QuadraticCurveTo that
\* ends in the point (x, y)
EndsCommandAt(k, x, y) ==
    /\ k >= 5
    /\ pathStr[k] = Num(y) /\ pathStr[k - 1] = Sp /\ pathStr[k - 2] = Num(x)
    /\ \/ pathStr[k - 4] = Ltr("M")
       \/ k >= 9 /\ pathStr[k - 8] = Ltr("Q")

\* the place before the Q of emission e
BeforeCurve(e) == IF Moves(e) THEN e.preLen + 5 ELSE e.preLen

\* C2 (as amended): the pen position is the rounded endpoint of the last
\* emitted segment, and every QuadraticCurveTo is preceded, with nothing
\* but close markers z in between, by a MoveTo or QuadraticCurveTo whose
\* endpoint is the rounded (x0, y0) of its emission.
C2_ContinuityUpToClose ==
    /\ PenAtLastEndpoint
    /\ \A i \in DOMAIN trace :
           EndsCommandAt(SkipClose(BeforeCurve(trace[i])),
                         round(trace[i].x0), round(trace[i].y0))

\* C2 as stated: the MoveTo or QuadraticCurveTo comes immediately before.
C2_ContinuityImmediate ==
    /\ PenAtLastEndpoint
    /\ \A i \in DOMAIN trace :
           EndsCommandAt(BeforeCurve(trace[i]),
                         round(trace[i].x0), round(trace[i].y0))

\* a QuadraticCurveTo written without a MoveTo right after a close marker
C2_Witness ==
    \E i \in DOMAIN trace :
        /\ ~Moves(trace[i])
        /\ trace[i].preLen > 0
        /\ pathStr[trace[i].preLen] = Ltr("z")
        /\ pathStr[trace[i].preLen + 1] = Ltr("Q")

\* C3: a public drawer starts from the empty descriptor and the pen at
\* (0, 0) whatever was drawn before; within the call every emission starts
\* from the descriptor and the pen the one before left (nothing is reset,
\* all is appended); the descriptor handed to finish is what the emissions
\* of the call wrote.
C3_PublicResetsPrivateAppends ==
    call.op \in PublicDrawers =>
        /\ \A i \in DOMAIN trace :
               IF i = 1
               THEN trace[i].preLen = 0 /\ trace[i].prePos = Pt(0, 0)
               ELSE /\ trace[i].preLen = trace[i - 1].postLen
                    /\ trace[i].prePos = trace[i - 1].postPos
        /\ \A i \in DOMAIN trace : trace[i].postLen > trace[i].preLen
        /\ Len(pathStr) = IF trace = <<>> THEN 0 ELSE trace[Len(trace)].postLen
        /\ ret = [tagName |-> "path", d |-> Some(pathStr)]

\* a rectangle with round corners drawn after another drawing
C3_Witness ==
    /\ call.op = "cRect"
    /\ call.dirty
    /\ call.args[5] # Undefined /\ call.args[5][1] > 0
    /\ Len(trace) > 8
    /\ trace[1].preLen = 0
    /\ CountOf("M") = 1

\* C4 as stated: the outline of every rectangle is one continuous closed
\* run, each emission starting where the one before ended and the last
\* ending where the first began, with exactly one MoveTo in the descriptor.
C4_RectOutlineContinuous ==
    call.op = "cRect" =>
        /\ CountOf("M") = 1
        /\ \A i \in 2..Len(trace) :
               /\ round(trace[i].x0) = round(trace[i - 1].x1)
               /\ round(trace[i].y0) = round(trace[i - 1].y1)
        /\ round(trace[Len(trace)].x1) = round(trace[1].x0)
        /\ round(trace[Len(trace)].y1) = round(trace[1].y0)

\* a rectangle of horizontal radius 0 and a vertical radius: four sides
\* that do not meet, each with a MoveTo of its own
C4_Witness ==
    /\ call.op = "cRect"
    /\ call.args[5] = Some(0)
    /\ call.args[6] # Undefined /\ call.args[6][1] > 0
    /\ CountOf("M") = 4
    /\ \E i \in 2..Len(trace) : round(trace[i].y0) # round(trace[i - 1].y1)

\* a rectangle without radii, or with both of them 0
PlainRect ==
    /\ call.op = "cRect"
    /\ \/ call.args[5] = Undefined /\ call.args[6] = Undefined
       \/ call.args[5] = Some(0) /\ call.args[6] = Some(0)

\* C5: the first MoveTo of a plain rectangle is at the rounded endpoint of
\* its last emitted segment.
C5_PlainRectCloses ==
    PlainRect =>
        /\ pathStr[1] = Ltr("M")
        /\ pathStr[3] = Num(round(trace[Len(trace)].x1))
        /\ pathStr[5] = Num(round(trace[Len(trace)].y1))

\* a plain rectangle away from the origin, four sides drawn
C5_Witness ==
    /\ PlainRect
    /\ call.args[1] # 0 /\ call.args[2] # 0
    /\ Len(trace) >= 4 * C.msteps
    /\ pathStr[3] = Num(round(call.args[1]))
    /\ pathStr[5] = Num(round(call.args[2]))

\* the length of the line of a cLine call reaches k steps of fsteps or less
WithinSteps(k) ==
    LET dx == call.args[3] - call.args[1]
        dy == call.args[4] - call.args[2]
    IN  \/ k * C.fsteps > 46340
        \/ (k * C.fsteps) * (k * C.fsteps) >= dx * dx + dy * dy

\* C6: a line of length L is drawn in max(msteps, ceil(L / fsteps))
\* segments, and when L / fsteps >= msteps half the fsteps gives no fewer
\* segments.
C6_LineSegmentCount ==
    call.op = "cLine" =>
        /\ Len(trace) >= C.msteps
        /\ WithinSteps(Len(trace))
        /\ Len(trace) > C.msteps => ~WithinSteps(Len(trace) - 1)
        /\ (C.fsteps % 2 = 0 /\ (C.msteps = 0 \/ ~WithinSteps(C.msteps - 1))) =>
               lineSteps([C EXCEPT !.fsteps = C.fsteps \div 2],
                         call.args[1], call.args[2], call.args[3], call.args[4])
                   >= Len(trace)

\* a line of more segments than msteps, which half the fsteps doubles
C6_Witness ==
    /\ call.op = "cLine"
    /\ Len(trace) > C.msteps
    /\ ~WithinSteps(Len(trace) - 1)
    /\ C.fsteps % 2 = 0
    /\ lineSteps([C EXCEPT !.fsteps = C.fsteps \div 2],
                 call.args[1], call.args[2], call.args[3], call.args[4])
           = 2 * Len(trace)

\* C7: the first segment of a line starts at (x0, y0), the last ends at
\* (x1, y1), the ease function being 0 at t = 0 and -1 at t = 1; each
\* segment starts at the endpoint of the one before, so that the line has
\* one MoveTo; Line(0, 0, 100, 0) under fsteps = 50 and msteps = 4 is drawn
\* in 4 segments.
C7_LineEndpointsAndChaining ==
    call.op = "cLine" =>
        LET n == Len(trace)
        IN  /\ n >= 1
            /\ ftOf(0, n) = 0 /\ ftOf(n, n) = -FracScale
            /\ trace[1].x0 = call.args[1] /\ trace[1].y0 = call.args[2]
            /\ trace[n].x1 = call.args[3] /\ trace[n].y1 = call.args[4]
            /\ \A i \in 2..n : /\ trace[i].x0 = trace[i - 1].x1
                               /\ trace[i].y0 = trace[i - 1].y1
            /\ CountOf("M") = 1 /\ pathStr[1] = Ltr("M")
            /\ (/\ call.args = <<Fx(0), Fx(0), Fx(100), Fx(0)>>
                /\ C.fsteps = Fx(50) /\ C.msteps = 4) => n = 4

\* Line(0, 0, 100, 0) drawn under the configuration of load time
C7_Witness ==
    /\ call.op = "cLine"
    /\ call.args = <<Fx(0), Fx(0), Fx(100), Fx(0)>>
    /\ C.fsteps = Fx(fsteps) /\ C.msteps = msteps
    /\ Len(trace) = 4
    /\ trace[1].x0 = Fx(0) /\ trace[4].x1 = Fx(100)
    /\ trace[2].x0 # Fx(0) /\ trace[2].x0 # Fx(100)

\* C8: fuzz(v, f) with f >= 0 lies within [v - f/2, v + f/2] whatever the
\* draw of the random source.
C8_FuzzBounded ==
    call.op = "fuzz" =>
        (call.args[2] >= 0 => 2 * Abs(ret - call.args[1]) <= call.args[2])

\* the least draw, which gives the lower end of the interval
C8_Witness ==
    /\ call.op = "fuzz"
    /\ call.args[2] = Fx(ff) /\ call.args[3] = 0
    /\ ret = call.args[1] - Fx(ff) \div 2

RECURSIVE Factorial(_)
Factorial(n) == IF n = 0 THEN 1 ELSE n * Factorial(n - 1)

RECURSIVE Power(_, _)
Power(b, e) == IF e = 0 THEN 1 ELSE b * Power(b, e - 1)

RECURSIVE BernsteinSum(_, _, _, _, _, _)
\* the terms k and up of the Bernstein form, at tn/td and times td^deg, of
\* the curve point of the control points points[a + 1 .. a + deg + 1]
BernsteinSum(points, a, deg, tn, td, k) ==
    IF k > deg THEN Pt(0, 0)
    ELSE LET w == (Factorial(deg) \div (Factorial(k) * Factorial(deg - k)))
                  * Power(tn, k) * Power(td - tn, deg - k)
             rest == BernsteinSum(points, a, deg, tn, td, k + 1)
         IN  Pt(w * points[a + k + 1].x + rest.x, w * points[a + k + 1].y + rest.y)

Times(p, c) == Pt(p.x * c, p.y * c)

\* C9: bsplit of P0..Pn (n = 2 or 3) at t returns two sequences of n + 1
\* points with left[0] = P0, right[n] = Pn, left[n] = right[0], left[j]
\* the curve point at t of P0..Pj and right[j] that of Pj..Pn; at t = 1
\* the left sequence is the input.
C9_BezierSubdivision ==
    call.op = "bsplit" =>
        LET points == call.args[1]
            tn == call.args[2]
            td == call.args[3]
            n == Len(points) - 1
            left == ret.res1
            right == ret.res2
        IN  /\ n \in {2, 3}
            /\ ret.den = Power(td, n)
            /\ DOMAIN left = 1..(n + 1) /\ DOMAIN right = 1..(n + 1)
            /\ left[1] = Times(points[1], ret.den)
            /\ right[n + 1] = Times(points[n + 1], ret.den)
            /\ left[n + 1] = right[1]
            /\ \A j \in 0..n :
                   /\ left[j + 1] =
                          Times(BernsteinSum(points, 0, j, tn, td, 0), Power(td, n - j))
                   /\ right[j + 1] =
                          Times(BernsteinSum(points, j, n - j, tn, td, 0), Power(td, j))
            /\ tn = td => \A j \in 0..n : left[j + 1] = Times(points[j + 1], ret.den)

\* a cubic split at a third
C9_Witness ==
    /\ call.op = "bsplit"
    /\ Len(call.args[1]) = 4
    /\ call.args[2] = 1 /\ call.args[3] = 3
    /\ ret.res1[4] = ret.res2[1]
    /\ ret.res1[2] # Times(call.args[1][2], ret.den)
    /\ ret.res1[4] = Times(BernsteinSum(call.args[1], 0, 3, 1, 3, 0), 1)

\* the distance a rebuilt point may have from the point it stands for
Tolerance == Res \div 5

Near(p, q) ==
    /\ p.x # NaN /\ p.y # NaN
    /\ Abs(p.x - q.x) <= Tolerance /\ Abs(p.y - q.y) <= Tolerance

\* the arc lies on an ellipse of radii rh, rv turned by rot degrees that
\* spans the chord from ps to pe
SpansChord(ps, pe, rh, rv, rot) ==
    LET ct == cosTurn(Ang(rot, 360))
        st == sinTurn(Ang(rot, 360))
        dx == ps.x - pe.x
        dy == ps.y - pe.y
        px == RoundDiv(ct * dx + st * dy, 2 * FracScale)
        py == RoundDiv(ct * dy - st * dx, 2 * FracScale)
        qx == RoundDiv(px * FracScale, rh)
        qy == RoundDiv(py * FracScale, rv)
    IN  /\ ps # pe /\ rh > 0 /\ rv > 0
        /\ MulFx(qx, qx) + MulFx(qy, qy) <= FracScale

\* the start and end points rebuilt from what getEllipse returned
RoundTrip ==
    LET ps == call.args[1]
        pe == call.args[2]
        rh == call.args[3]
        rv == call.args[4]
        rot == Ang(call.args[5], 360)
    IN  /\ Near(ellipsePoint(ret[1].x, ret[1].y, rh, rv, rot, ret[2].x), ps)
        /\ Near(ellipsePoint(ret[1].x, ret[1].y, rh, rv, rot, ret[2].y), pe)

\* C10 as stated: for an arc whose radii span its chord, under each of the
\* four flag combinations, the points rebuilt from the center and angles of
\* getEllipse with the radii and the rotation are the start and end points.
C10_ArcRoundTrip ==
    (/\ call.op = "getEllipse"
     /\ SpansChord(call.args[1], call.args[2], call.args[3], call.args[4],
                   call.args[5]))
        => RoundTrip

\* a quarter of a circle turned by 90 degrees: the center is found, the
\* rebuilt start point is more than 4 units away from the start point
C10_Witness ==
    /\ call.op = "getEllipse"
    /\ call.args = <<Pt(Fx(10), Fx(0)), Pt(Fx(0), Fx(10)), Fx(10), Fx(10), 90, FALSE, TRUE>>
    /\ SpansChord(call.args[1], call.args[2], call.args[3], call.args[4], 90)
    /\ ret[1].x # NaN
    /\ ~RoundTrip
    /\ Abs(ellipsePoint(ret[1].x, ret[1].y, Fx(10), Fx(10), Ang(90, 360), ret[2].x).y
           - call.args[1].y) > Fx(4)

\* the same of the arcs that are not rotated
ArcRoundTripUnrotated ==
    (/\ call.op = "getEllipse"
     /\ call.args[5] = 0
     /\ SpansChord(call.args[1], call.args[2], call.args[3], call.args[4], 0))
        => RoundTrip

\* a call of cCircle drew n arc segments between two corrective lines of
\* msteps segments each, in one chain that starts at the ideal start point
\* of the arc
CircleDrawnIn(n) ==
    /\ n >= 0
    /\ Len(trace) = n + 2 * C.msteps
    /\ n * n * Res >= 9 * call.args[3]
    /\ n > 0 => (n - 1) * (n - 1) * Res < 9 * call.args[3]
    /\ CountOf("M") = 1 /\ pathStr[1] = Ltr("M")
    /\ \A i \in 2..Len(trace) : /\ trace[i].x0 = trace[i - 1].x1
                                /\ trace[i].y0 = trace[i - 1].y1

\* Circle(50, 50, 10) under the configuration of load time
CircleScenario ==
    /\ call.op = "cCircle"
    /\ call.args = <<Fx(50), Fx(50), Fx(10), Undefined, Undefined>>
    /\ C.fsteps = Fx(fsteps) /\ C.msteps = msteps

\* the first MoveTo is at (60, 50) and the last endpoint rounds to (60, 50)
ClosesAtSixtyFifty ==
    /\ pathStr[3] = Num(round(Fx(60))) /\ pathStr[5] = Num(round(Fx(50)))
    /\ round(trace[Len(trace)].x1) = round(Fx(60))
    /\ round(trace[Len(trace)].y1) = round(Fx(50))

\* C11 (as amended): every circle is drawn in ceil(sqrt(r) * 3) arc segments
\* between two corrective lines of msteps segments each, in one chain;
\* Circle(50, 50, 10) under the default configuration has 10 arc segments
\* and 2 * 4 segments of corrective lines, 18 in all, its first MoveTo is at
\* (60, 50) and its last endpoint rounds to (60, 50).
C11_CircleSegments ==
    /\ call.op = "cCircle" => CircleDrawnIn(Len(trace) - 2 * C.msteps)
    /\ CircleScenario => (Len(trace) = 18 /\ CircleDrawnIn(10) /\ ClosesAtSixtyFifty)

\* C11 as stated: 10 arc segments and two corrective segments, 12 in all.
C11_CircleTwelveSegments ==
    CircleScenario =>
        /\ Len(trace) = 12
        /\ CountOf("M") = 1
        /\ ClosesAtSixtyFifty

\* Circle(50, 50, 10) drawn: the first corrective line ends with segment 4
\* at the distorted start point, the arc ends with segment 14
C11_Witness ==
    /\ CircleScenario
    /\ Len(trace) = 18
    /\ CountOf("Q") = 18
    /\ trace[1].x0 = Fx(60) /\ trace[1].y0 = Fx(50)
    /\ trace[4].y1 = Fx(50)
    /\ trace[4].x1 # Fx(60)
    /\ trace[18].x1 = Fx(60)

Recognized == {"ff", "ffc", "fsteps", "msteps", "precision"}

\* C12 as stated: init(options) sets the recognized fields that options
\* holds, and every other field of C is after the call what it was before
\* it: no field is added and none that options does not hold, or that is
\* not recognized, is changed.
C12_InitMergesRecognizedOnly ==
    [][call'.op = "init" =>
          \A k \in DOMAIN C \cup DOMAIN C' :
              IF k \in Recognized \cap DOMAIN call'.args[1]
              THEN k \in DOMAIN C' /\ C'[k] = call'.args[1][k]
              ELSE k \in DOMAIN C /\ k \in DOMAIN C' /\ C'[k] = C[k]]_vars

\* init has put a key C did not have into C, and has overwritten the pen
\* position
C12_Witness ==
    /\ call.op = "init"
    /\ "foo" \in DOMAIN C /\ C.foo = 1
    /\ C.pathPos = Pt(Fx(7), Fx(7))

\* the number n of the path string is x rounded to the digits of C.precision
RoundedAsConfigured(n, x) ==
    n * 10^C.precision = RoundDiv(x * 10^C.precision, Res) * roundFactor

\* C13 as stated: once init has set precision, every coordinate the sink
\* writes is rounded to C.precision digits.
C13_ConfiguredPrecisionHonoured ==
    ("precision" \in DOMAIN C /\ call.op \in PublicDrawers) =>
        \A i \in DOMAIN trace :
            LET e == trace[i]
                q == BeforeCurve(e) + 1
            IN  /\ pathStr[q] = Ltr("Q")
                /\ RoundedAsConfigured(pathStr[q + 2].v, e.cx)
                /\ RoundedAsConfigured(pathStr[q + 4].v, e.cy)
                /\ RoundedAsConfigured(pathStr[q + 6].v, e.x1)
                /\ RoundedAsConfigured(pathStr[q + 8].v, e.y1)
                /\ RoundedAsConfigured(e.postPos.x, e.x1)
                /\ RoundedAsConfigured(e.postPos.y, e.y1)

\* a line drawn after init({precision: 1}) whose second segment ends at a
\* coordinate with a digit after the point, written without it
C13_Witness ==
    /\ "precision" \in DOMAIN C /\ C.precision = 1
    /\ call.op = "cLine"
    /\ \E i \in DOMAIN trace :
           /\ trace[i].x1 % Res # 0
           /\ pathStr[BeforeCurve(trace[i]) + 7] = Num(round(trace[i].x1))
           /\ ~RoundedAsConfigured(round(trace[i].x1), trace[i].x1)

\* C14 as stated: every call of a drawer returns, under every configuration
\* init accepts.
C14_DrawersTerminate ==
    call.op \in PublicDrawers => ret # Hangs

\* under fsteps = 0 the loop of the line from (0, 0) to (100, 0) has no end
C14_Witness ==
    /\ C.fsteps = 0
    /\ call.op = "cLine"
    /\ call.args = <<Fx(0), Fx(0), Fx(100), Fx(0)>>
    /\ lineSteps(C, call.args[1], call.args[2], call.args[3], call.args[4]) = Infinity
    /\ ret = Hangs

\* ------------------------------------------------------------------ paths
DecodesPath == call.op \in {"rePath", "rePathOn"}

Closing == {"Z", "z"}

\* the emissions made for entry g of the log
EmissionsOf(g) ==
    {i \in DOMAIN trace : trace[i].preLen >= g.from /\ trace[i].postLen <= g.to}

\* the target of the most recent move before entry i of the log
PathStart(log, i) ==
    LET moves == {k \in 1..(i - 1) : log[k].letter \in {"M", "m"} /\ log[k].calls = <<>>}
    IN  IF moves = {} THEN Pt(0, 0)
        ELSE log[CHOOSE k \in moves : \A k2 \in moves : k2 <= k].posOut

TrianglePath ==
    parsePath(<<SegTo("M", 0, 0), SegTo("L", 10, 0), SegTo("L", 10, 10), SegZ("Z")>>)

\* C15: at Z or z rePath draws one line from the current position to the
\* target of the most recent move, then appends the close marker, then takes
\* that target as the current position; M0,0 L10,0 L10,10 Z becomes the three
\* lines (0,0)->(10,0)->(10,10)->(0,0) in this order, with a single MoveTo and
\* the close marker as the last token.
C15_ClosePath ==
    DecodesPath =>
        /\ \A i \in DOMAIN ret.log :
               ret.log[i].letter \in Closing =>
                   LET g == ret.log[i]
                       start == PathStart(ret.log, i)
                       em == EmissionsOf(g)
                   IN  /\ g.calls = <<Called("cLine", <<g.pos.x, g.pos.y,
                                                        start.x, start.y>>)>>
                       /\ em # {}
                       /\ \E a \in em, b \in em :
                              /\ trace[a].preLen = g.from
                              /\ trace[a].x0 = g.pos.x /\ trace[a].y0 = g.pos.y
                              /\ trace[b].postLen = g.to - 1
                              /\ trace[b].x1 = start.x /\ trace[b].y1 = start.y
                       /\ pathStr[g.to] = Ltr("z")
                       /\ g.posOut = start
        /\ call.args[1] = TrianglePath =>
               /\ [i \in DOMAIN ret.log |-> ret.log[i].calls] =
                      << <<>>,
                         <<Called("cLine", <<Fx(0), Fx(0), Fx(10), Fx(0)>>)>>,
                         <<Called("cLine", <<Fx(10), Fx(0), Fx(10), Fx(10)>>)>>,
                         <<Called("cLine", <<Fx(10), Fx(10), Fx(0), Fx(0)>>)>> >>
               /\ CountOf("M") = 1
               /\ pathStr[Len(pathStr)] = Ltr("z")

\* M0,0 L10,0 L10,10 Z has been drawn: its Z was met at (10, 10), away from
\* the start of the path
C15_Witness ==
    /\ DecodesPath
    /\ call.args[1] = TrianglePath
    /\ Len(ret.log) = 4
    /\ ret.log[4].letter = "Z"
    /\ ret.log[4].pos = Pt(Fx(10), Fx(10))
    /\ ret.log[4].posOut = Pt(0, 0)

\* the origin of the coordinates of entry g: (0, 0) for an uppercase letter,
\* the position at which the group is met for a lowercase one
GroupBase(g) == IF isUpperCase(g.letter) THEN Pt(0, 0) ELSE g.pos

\* entry g has decoded its numbers from the origin b
DecodedFrom(g, b) ==
    LET a == g.args
    IN  CASE g.letter \in {"M", "m"} /\ g.calls = <<>> ->
                 g.posOut = Pt(b.x + a[1], b.y + a[2])
          [] g.letter \in {"M", "m", "L", "l"} /\ g.calls # <<>> ->
                 g.calls = <<Called("cLine", <<g.pos.x, g.pos.y, b.x + a[1], b.y + a[2]>>)>>
          [] g.letter \in {"H", "h"} ->
                 g.calls = <<Called("cLine", <<g.pos.x, g.pos.y, b.x + a[1], g.pos.y>>)>>
          [] g.letter \in {"V", "v"} ->
                 g.calls = <<Called("cLine", <<g.pos.x, g.pos.y, g.pos.x, b.y + a[1]>>)>>
          [] g.letter \in {"Q", "q"} ->
                 g.calls = <<Called("cBezier2", <<g.pos.x, g.pos.y, b.x + a[1], b.y + a[2],
                                                  b.x + a[3], b.y + a[4]>>)>>
          [] g.letter \in {"T", "t"} ->
                 /\ Len(g.calls) = 1 /\ g.calls[1].op = "cBezier2"
                 /\ SubSeq(g.calls[1].args, 5, 6) = <<b.x + a[1], b.y + a[2]>>
          [] g.letter \in {"C", "c"} ->
                 g.calls = <<Called("cBezier3", <<g.pos.x, g.pos.y, b.x + a[1], b.y + a[2],
                                                  b.x + a[3], b.y + a[4],
                                                  b.x + a[5], b.y + a[6]>>)>>
          [] g.letter \in {"S", "s"} ->
                 /\ Len(g.calls) = 1 /\ g.calls[1].op = "cBezier3"
                 /\ SubSeq(g.calls[1].args, 5, 8) =
                        <<b.x + a[1], b.y + a[2], b.x + a[3], b.y + a[4]>>
          [] g.letter \in {"A", "a"} ->
                 LET p1 == Pt(b.x + a[6], b.y + a[7])
                 IN  CASE arcKind(g.pos, p1, Abs(a[1]), Abs(a[2])) = "skip" ->
                              g.calls = <<>>
                       [] arcKind(g.pos, p1, Abs(a[1]), Abs(a[2])) = "line" ->
                              /\ Len(g.calls) = 1 /\ g.calls[1].op = "cLine"
                              /\ g.calls[1].args[3] \in {p1.x, g.pos.x}
                              /\ g.calls[1].args[4] \in {p1.y, g.pos.y}
                       [] OTHER ->
                              /\ Len(g.calls) = 2 /\ g.calls[1].op = "getEllipse"
                              /\ SubSeq(g.calls[1].args, 1, 4) =
                                     <<g.pos.x, g.pos.y, p1.x, p1.y>>
                              /\ g.posOut = p1
          [] OTHER -> TRUE

RelativeDecodingOfSegments ==
    call.op = "rePath" => \A i \in DOMAIN ret.log : DecodedFrom(ret.log[i], GroupBase(ret.log[i]))

Quadratics == {"Q", "q", "T", "t"}
Cubics == {"C", "c", "S", "s"}

\* The control point that entry i of the log finds remembered: the control
\* point of the quadratic curve, or the second one of the cubic curve, that
\* the entry before it has drawn, if that entry is of the family.
Remembered(log, i, family) ==
    IF i > 1 /\ log[i - 1].letter \in family /\ Len(log[i - 1].calls) = 1
    THEN LET a == log[i - 1].calls[1].args
         IN  IF family = Quadratics THEN Some(Pt(a[3], a[4])) ELSE Some(Pt(a[5], a[6]))
    ELSE Undefined

\* the first control point of the curve drawn for entry g is the reflection
\* of the remembered point mem through the position, or the position
Reflects(g, mem) ==
    /\ Len(g.calls) = 1
    /\ SubSeq(g.calls[1].args, 1, 4) =
           IF mem = Undefined
           THEN <<g.pos.x, g.pos.y, g.pos.x, g.pos.y>>
           ELSE <<g.pos.x, g.pos.y, 2 * g.pos.x - mem[1].x, 2 * g.pos.y - mem[1].y>>

\* C17: T and t draw with the reflection of the last quadratic control point
\* through the current position, S and s with the reflection of the last
\* second cubic control point, and with the current position itself when the
\* memory is unset; every command outside Q, q, T, t unsets the quadratic
\* memory and every command outside C, c, S, s the cubic one, so that at most
\* one of the two is set.
C17_SmoothControlPoints ==
    DecodesPath =>
        \A i \in DOMAIN ret.log :
            LET g == ret.log[i]
            IN  /\ g.letter \in {"T", "t"} =>
                       /\ g.calls[1].op = "cBezier2"
                       /\ Reflects(g, Remembered(ret.log, i, Quadratics))
                /\ g.letter \in {"S", "s"} =>
                       /\ g.calls[1].op = "cBezier3"
                       /\ Reflects(g, Remembered(ret.log, i, Cubics))
                /\ g.qpos = IF g.letter \in Quadratics
                            THEN Remembered(ret.log, i, Quadratics) ELSE Undefined
                /\ g.cpos = IF g.letter \in Cubics
                            THEN Remembered(ret.log, i, Cubics) ELSE Undefined
                /\ g.letter \notin Quadratics => g.qposOut = Undefined
                /\ g.letter \notin Cubics => g.cposOut = Undefined
                /\ g.qpos = Undefined \/ g.cpos = Undefined
                /\ g.qposOut = Undefined \/ g.cposOut = Undefined

\* a path in which a t after a q was drawn with a control point reflected
\* away from the position
C17_Witness ==
    /\ DecodesPath
    /\ \E i \in DOMAIN ret.log :
           /\ i > 1
           /\ ret.log[i - 1].letter = "q"
           /\ ret.log[i].letter = "t"
           /\ ret.log[i].qpos # Undefined
           /\ ret.log[i].qposOut # Some(ret.log[i].pos)
           /\ SubSeq(ret.log[i].calls[1].args, 3, 4)
                  # <<ret.log[i].pos.x, ret.log[i].pos.y>>

\* a path in which an s after a q was drawn from the position itself
SmoothAfterOtherFamily ==
    /\ DecodesPath
    /\ \E i \in DOMAIN ret.log :
           /\ i > 1
           /\ ret.log[i - 1].letter = "q"
           /\ ret.log[i].letter = "s"
           /\ ret.log[i].cpos = Undefined
           /\ SubSeq(ret.log[i].calls[1].args, 3, 4)
                  = <<ret.log[i].pos.x, ret.log[i].pos.y>>

Arcs == {"A", "a"}

\* C18: of an arc group rePath draws nothing when its end point is the
\* current position, nothing when both radii are zero, one straight line by a
\* single cLine call and no ellipse when exactly one radius is zero, and
\* otherwise calls getEllipse and then the ellipse drawer, once each; the
\* call of rePath returns in every case.
C18_DegenerateArcs ==
    DecodesPath =>
        /\ ret.tagName = "path"
        /\ \A i \in DOMAIN ret.log :
               ret.log[i].letter \in Arcs =>
                   LET g == ret.log[i]
                       b == GroupBase(g)
                       p1 == Pt(b.x + g.args[6], b.y + g.args[7])
                       rx == Abs(g.args[1])
                       ry == Abs(g.args[2])
                       ops == [k \in DOMAIN g.calls |-> g.calls[k].op]
                   IN  CASE p1 = g.pos -> ops = <<>> /\ g.to = g.from /\ g.posOut = g.pos
                         [] rx = 0 /\ ry = 0 -> ops = <<>> /\ g.to = g.from /\ g.posOut = g.pos
                         [] rx = 0 \/ ry = 0 -> ops = <<"cLine">> /\ g.to > g.from
                         [] OTHER -> ops = <<"getEllipse", "cEllipse">>

\* an arc command whose groups are of all four kinds has been decoded
C18_Witness ==
    /\ call.op = "rePathOn"
    /\ Len(ret.log) = 5
    /\ \A i \in 2..5 : ret.log[i].letter = "a"
    /\ ret.log[2].calls = <<>> /\ ret.log[2].args[1] # 0
    /\ ret.log[3].calls = <<>> /\ ret.log[3].args[1] = 0 /\ ret.log[3].args[2] = 0
    /\ Len(ret.log[4].calls) = 1 /\ ret.log[4].calls[1].op = "cLine"
    /\ Len(ret.log[5].calls) = 2 /\ ret.log[5].calls[2].op = "cEllipse"

\* the same kinds in path elements, one arc segment each
ArcSegmentKinds(kind) ==
    /\ call.op = "rePath"
    /\ \E i \in DOMAIN ret.log :
           /\ ret.log[i].letter \in Arcs
           /\ [k \in DOMAIN ret.log[i].calls |-> ret.log[i].calls[k].op] = kind

\* -------------------------------------------------------------- documents
\* the items of the input of C.magic
ItemsOf(svgs) ==
    IF isArray(svgs) THEN {svgs.items[i] : i \in DOMAIN svgs.items} ELSE {svgs}

\* x taken out of its arrays, its contentDocument and its node
Unwrapped(x) == unNode(unCD(unArray(x)))

\* there is an svg or g to discover in x: x itself, an immediate child or
\* the parent
Recognizable(x) ==
    LET e == Unwrapped(x)
    IN  \/ checkTag(e)
        \/ Has(e, "children") /\ \E i \in DOMAIN e.children : checkTag(unNode(e.children[i]))
        \/ Has(e, "parent") /\ checkTag(e.parent)

\* C19: a call of magic whose input, a single item or any item of a list,
\* holds no svg or g to discover fails with the error of unrecognized input,
\* and has replaced no element and set no d attribute.
C19_NoPartialReplacement ==
    (call.op = "magic" /\ \E x \in ItemsOf(call.args[1]) : ~Recognizable(x)) =>
        /\ ret.error = NoDrawing
        /\ ret.changes = <<>>

\* magic has failed on a list whose first item holds no drawing and whose
\* second item is one
C19_Witness ==
    /\ call.op = "magic"
    /\ isArray(call.args[1])
    /\ Len(call.args[1].items) = 2
    /\ ~Recognizable(call.args[1].items[1])
    /\ checkTag(call.args[1].items[2])
    /\ ret.error = NoDrawing

\* the same of an input that is a single item and knows no parent
NoReplacementOfSingleItem ==
    (/\ call.op = "magic" /\ ~isArray(call.args[1])
     /\ ~Recognizable(call.args[1])
     /\ ~Has(Unwrapped(call.args[1]), "parent")) =>
        /\ ret.error = NoDrawing
        /\ ret.changes = <<>>

\* the first immediate child of e with a valid tag, if there is one
FirstTaggedChild(e) ==
    LET tagged == {i \in DOMAIN e.children : checkTag(unNode(e.children[i]))}
    IN  IF tagged = {} THEN Undefined
        ELSE Some(unNode(e.children[CHOOSE i \in tagged : \A k \in tagged : i <= k]))

\* what C20 has unWrap make of the unwrapped input e
Discovered(e) ==
    IF checkTag(e) THEN Found(e)
    ELSE IF Has(e, "children") /\ FirstTaggedChild(e) # Undefined
    THEN Found(FirstTaggedChild(e)[1])
    ELSE IF Has(e, "parent") /\ checkTag(e.parent) THEN Found(e.parent)
    ELSE Throws(NoDrawing)

\* C20: unWrap returns the input itself when its tag is svg or g, otherwise
\* the first immediate child whose tag is svg or g, otherwise the parent when
\* its tag is svg or g, and fails with 'error: no drawing element given' only
\* when none of these is recognized.
C20_ElementDiscovery ==
    (call.op = "unWrap" /\ unArray(call.args[1]) # NoObject) =>
        LET d == Discovered(Unwrapped(call.args[1]))
        IN  /\ ret.error = d.error
            /\ d.error = "" => ret.value = d.e.id

\* unWrap has been called on an element that is no drawing, has no drawing
\* among its children, and has a parent that is an svg
C20_Witness ==
    /\ call.op = "unWrap"
    /\ Has(call.args[1], "tagName") /\ ~checkTag(call.args[1])
    /\ FirstTaggedChild(call.args[1]) = Undefined
    /\ Has(call.args[1], "parent") /\ checkTag(call.args[1].parent)

\* the same of the objects that know no parent
DiscoveryWithoutParent ==
    (/\ call.op = "unWrap" /\ unArray(call.args[1]) # NoObject
     /\ ~Has(Unwrapped(call.args[1]), "parent")) =>
        LET d == Discovered(Unwrapped(call.args[1]))
        IN  /\ ret.error = d.error
            /\ d.error = "" => ret.value = d.e.id

\* unWrap has returned a child that is not the first child of the input
DiscoveryOfLaterChild ==
    /\ call.op = "unWrap" /\ ret.error = ""
    /\ Has(call.args[1], "children") /\ ~checkTag(call.args[1])
    /\ Len(call.args[1].children) >= 2
    /\ ret.value = call.args[1].children[2].id

\* ----------------------------------------------------------- output format
\* the kinds of the tokens of the descriptor from position i on
KindsFrom(i, n) == [k \in 1..n |-> pathStr[i + k - 1].t]

Commands == {i \in DOMAIN pathStr : pathStr[i].t \notin {"n", "sp"}}

\* C21: the descriptor is made of the commands M x y and Q cx cy x y, their
\* letter and numbers separated by single spaces, and of the close marker z
\* of rePath; an M is followed after a space by a Q; a command that follows a
\* Q of an earlier emission, and a z and what follows it, are joined on
\* without a space; no other letter and no lowercase m or q appears.
C21_OutputFormat ==
    /\ Len(pathStr) > 0 => pathStr[1].t = "M"
    /\ \A i \in DOMAIN pathStr :
           CASE pathStr[i].t = "M" ->
                    /\ i + 6 <= Len(pathStr)
                    /\ KindsFrom(i, 7) = <<"M", "sp", "n", "sp", "n", "sp", "Q">>
             [] pathStr[i].t = "Q" ->
                    /\ i + 8 <= Len(pathStr)
                    /\ KindsFrom(i, 9) = <<"Q", "sp", "n", "sp", "n", "sp", "n", "sp", "n">>
                    /\ i + 9 <= Len(pathStr) => pathStr[i + 9].t \in {"M", "Q", "z"}
             [] pathStr[i].t = "z" ->
                    /\ i > 1 /\ pathStr[i - 1].t = "n"
                    /\ i < Len(pathStr) => pathStr[i + 1].t \in {"M", "Q"}
             [] pathStr[i].t = "sp" -> i > 1 /\ i < Len(pathStr)
             [] pathStr[i].t = "n" -> i > 1
             [] OTHER -> FALSE

\* C21 as stated: M and Q are the only command letters, and every command
\* after the first is separated from the one before by a space
C21_SpaceSeparatedMoveAndCurve ==
    \A i \in Commands :
        /\ pathStr[i].t \in {"M", "Q"}
        /\ i > 1 => pathStr[i - 1] = Sp

\* a descriptor in which a Q follows the last number of the emission before
\* it, and which holds a close marker
C21_Witness ==
    /\ \E i \in Commands : i > 1 /\ pathStr[i].t = "Q" /\ pathStr[i - 1].t = "n"
    /\ \E i \in Commands : pathStr[i].t = "z"

\* the same without any path: a shape drawer alone joins its emissions
\* without a space
ShapeJoinsWithoutSpace ==
    /\ call.op \in PublicDrawers
    /\ \E i \in Commands : i > 1 /\ pathStr[i - 1].t = "n"

\* ------------------------------------------------------------- rectangles
\* the right edge of the rectangle of the call was drawn between the
\* corners of vertical radius rv
RightEdgeAt(rv) ==
    \E i \in DOMAIN trace, j \in DOMAIN trace :
        /\ i <= j
        /\ trace[i].x0 = call.args[1] + call.args[3]
        /\ trace[i].y0 = call.args[2] + rv
        /\ trace[j].x1 = call.args[1] + call.args[3]
        /\ trace[j].y1 = call.args[2] + call.args[4] - rv

\* C22: in every call of cRect the horizontal radius drawn with is at most
\* width/2 and the vertical one at most height/2, also when rv is omitted and
\* taken from rh.
C22_RadiiWithinHalfExtent ==
    call.op = "cRect" =>
        LET r == rectRadii(call.args[3], call.args[4], call.args[5], call.args[6])
        IN  /\ RightEdgeAt(r[2])
            /\ 2 * r[1] <= call.args[3]
            /\ 2 * r[2] <= call.args[4]

\* a rectangle drawn with rv omitted and rh above height/2
C22_Witness ==
    /\ call.op = "cRect"
    /\ call.args[6] = Undefined
    /\ call.args[5] # Undefined
    /\ 2 * call.args[5][1] > call.args[4]
    /\ 2 * call.args[5][1] <= call.args[3]
    /\ RightEdgeAt(call.args[5][1])

\* the same of the calls that give rv
RadiiWithinHalfExtentGiven ==
    (call.op = "cRect" /\ (call.args[6] # Undefined \/ call.args[5] = Undefined)) =>
        LET r == rectRadii(call.args[3], call.args[4], call.args[5], call.args[6])
        IN  /\ RightEdgeAt(r[2])
            /\ 2 * r[1] <= call.args[3]
            /\ 2 * r[2] <= call.args[4]

\* ------------------------------------------------------------- line fuzz
\* the offsets fuzz makes of the factor f, one for every draw
Offsets(f) == {RoundDiv(f * (2 * u - RandDen), 2 * RandDen) : u \in 0..(RandDen - 1)}

\* the factor C23 gives a line of n steps
FactorOf(n) == IF n = C.msteps THEN RoundDiv(C.ff * 10, 14) ELSE C.ff

\* C23: the control points of a line are perturbed with the factor ff/1.4
\* exactly when its step count is msteps, clamped or not, and with ff when
\* the count is above msteps; every control point lies within half the
\* factor of the start point of its segment in x and in y.
C23_LineFuzzReduction ==
    call.op = "cLine" =>
        \A i \in DOMAIN trace :
            /\ trace[i].cx - trace[i].x0 \in Offsets(FactorOf(Len(trace)))
            /\ trace[i].cy - trace[i].y0 \in Offsets(FactorOf(Len(trace)))
            /\ 2 * Abs(trace[i].cx - trace[i].x0) <= FactorOf(Len(trace))
            /\ 2 * Abs(trace[i].cy - trace[i].y0) <= FactorOf(Len(trace))

\* a line whose ceil(d / fsteps) is msteps without clamping, drawn with the
\* least draw: its control points are half of ff/1.4 away
C23_Witness ==
    /\ call.op = "cLine"
    /\ Len(trace) = C.msteps /\ C.msteps > 1
    /\ ~WithinSteps(C.msteps - 1)
    /\ \A i \in DOMAIN trace :
           /\ trace[i].x0 - trace[i].cx = RoundDiv(C.ff * 10, 14) \div 2
           /\ trace[i].x0 - trace[i].cx # C.ff \div 2

\* a line of more steps than msteps drawn with the least draw: its control
\* points are half of ff away
FullFuzzAboveMinimum ==
    /\ call.op = "cLine"
    /\ Len(trace) > C.msteps
    /\ \A i \in DOMAIN trace : trace[i].x0 - trace[i].cx = C.ff \div 2

\* ----------------------------------------------------- arcs: their extent
\* getEllipse has returned numbers
ArcFound == call.op = "getEllipse" /\ ret[1].x # NaN /\ ret[2].x.n # NaN /\ ret[2].y.n # NaN

\* endAngle - startAngle of the result
Extent == AngSub(ret[2].y, ret[2].x)

\* twice the cross product of the half chord (ps - pe) / 2 and the offset of
\* the center from the middle of the chord: it has the sign opposite to the
\* root taken, whatever the rotation
RootSide ==
    LET ps == call.args[1]
        pe == call.args[2]
    IN  (ps.x - pe.x) * (2 * ret[1].y - ps.y - pe.y)
        - (ps.y - pe.y) * (2 * ret[1].x - ps.x - pe.x)

\* C24: of an arc that is not degenerate getEllipse returns angles whose
\* difference endAngle - startAngle is positive when the sweep flag is set
\* and negative when it is clear, and above pi in magnitude exactly when the
\* large arc flag is set; the center is that of the negative root when the
\* two flags are equal and that of the positive root otherwise.
C24_ArcDirectionAndExtent ==
    ArcFound =>
        /\ IF call.args[7] THEN Extent.n > 0 ELSE Extent.n < 0
        /\ call.args[6] <=> 2 * Abs(Extent.n) > Extent.d
        /\ IF call.args[6] = call.args[7] THEN RootSide >= 0 ELSE RootSide <= 0

\* the large arc from (10, 0) to (0, 10) on a circle of radius 10 with the
\* sweep flag set: an extent of no more than half a turn is returned
C24_Witness ==
    /\ ArcFound
    /\ call.args = <<Pt(Fx(10), Fx(0)), Pt(Fx(0), Fx(10)), Fx(10), Fx(10), 0, TRUE, TRUE>>
    /\ 2 * Abs(Extent.n) <= Extent.d

\* the same of the small arcs that are less than half of the ellipse, and
\* the side of the center of all arcs
SmallArcDirectionAndExtent ==
    ArcFound =>
        /\ ~call.args[6] =>
               /\ 2 * Abs(Extent.n) <= Extent.d
               /\ 2 * Abs(Extent.n) < Extent.d =>
                      IF call.args[7] THEN Extent.n > 0 ELSE Extent.n < 0
        /\ IF call.args[6] = call.args[7] THEN RootSide >= 0 ELSE RootSide <= 0

\* what is returned for the large arcs: the extent of the small arc between
\* the same points about the center of the large one
LargeArcExtent ==
    (ArcFound /\ call.args[6]) =>
        /\ 2 * Abs(Extent.n) <= Extent.d
        /\ 2 * Abs(Extent.n) < Extent.d =>
               IF call.args[7] THEN Extent.n < 0 ELSE Extent.n > 0

\* of an arc over a diameter the extent is minus half a turn whatever the
\* sweep flag
HalfEllipseExtent ==
    (ArcFound /\ 2 * Abs(Extent.n) = Extent.d) => Extent.n < 0

\* ----------------------------------------------- Bezier curves: coverage
\* a call of cBezier2 or cBezier3 has returned
BezierDrawn == call.op \in {"cBezier2", "cBezier3"} /\ ret # Hangs

\* the control points of the call, start and end point included
ControlPoints == {Pt(call.args[2 * k - 1], call.args[2 * k]) : k \in 1..(Len(call.args) \div 2)}

\* the emissions are a chain from the start point to the end point of the call
CoversCurve ==
    LET n == Len(call.args)
    IN  /\ Len(trace) > 0
        /\ Pt(trace[1].x0, trace[1].y0) = Pt(call.args[1], call.args[2])
        /\ Pt(trace[Len(trace)].x1, trace[Len(trace)].y1) = Pt(call.args[n - 1], call.args[n])
        /\ \A i \in 1..(Len(trace) - 1) :
               Pt(trace[i + 1].x0, trace[i + 1].y0) = Pt(trace[i].x1, trace[i].y1)

\* C25: with fsteps > 0 every call of cBezier2 or cBezier3 whose control
\* points are not all the same point emits a chain of segments that is not
\* empty, starts at (x0, y0) and ends at (x1, y1), also when the start
\* point is the end point.
C25_BezierCoversCurve ==
    (BezierDrawn /\ C.fsteps > 0 /\ Cardinality(ControlPoints) > 1) => CoversCurve

\* a closed cubic curve through (50, 50) and (-50, 50) was to be drawn and
\* nothing was emitted
C25_Witness ==
    /\ BezierDrawn /\ C.fsteps > 0
    /\ call.args = <<Fx(0), Fx(0), Fx(50), Fx(50), Fx(-50), Fx(50), Fx(0), Fx(0)>>
    /\ Len(trace) = 0
    /\ ret.d = Some(<<>>)

\* the same of the curves whose start point is not their end point
OpenBezierCoversCurve ==
    (BezierDrawn /\ C.fsteps > 0
        /\ Pt(call.args[1], call.args[2])
               # Pt(call.args[Len(call.args) - 1], call.args[Len(call.args)]))
    => CoversCurve

\* of a curve whose start point is its end point nothing is emitted
ClosedBezierEmitsNothing ==
    (BezierDrawn
        /\ Pt(call.args[1], call.args[2])
               = Pt(call.args[Len(call.args) - 1], call.args[Len(call.args)]))
    => Len(trace) = 0

\* ------------------------------------------ rePath: the current position
DrawingLetters == {"L", "l", "H", "h", "V", "v", "Q", "q", "T", "t", "C", "c", "S", "s", "A", "a"}

\* the end point of entry g of the log resolved to absolute coordinates
EndPoint(g) ==
    LET b == GroupBase(g)
        n == Len(g.args)
    IN  CASE g.letter \in {"H", "h"} -> Pt(b.x + g.args[1], g.pos.y)
          [] g.letter \in {"V", "v"} -> Pt(g.pos.x, b.y + g.args[1])
          [] OTHER -> Pt(b.x + g.args[n - 1], b.y + g.args[n])

\* an arc group with a radius of zero that does not end where it starts
ZeroRadiusArc(g) ==
    /\ g.letter \in Arcs
    /\ g.args[1] = 0 \/ g.args[2] = 0
    /\ EndPoint(g) # g.pos

\* C26: after rePath has processed a segment of one of the letters L, H, V,
\* Q, T, C, S, A in either case the current position is the end point of the
\* segment resolved to absolute coordinates, also for an arc that is skipped
\* or drawn as a line because a radius is zero.
C26_PositionTracksPath ==
    DecodesPath =>
        \A i \in DOMAIN ret.log :
            ret.log[i].letter \in DrawingLetters => ret.log[i].posOut = EndPoint(ret.log[i])

\* a path element with an arc of vertical radius zero from (10, 10) towards a
\* point of another height has been decoded: the position is left at the
\* height of the start
C26_Witness ==
    /\ call.op = "rePath"
    /\ \E i \in DOMAIN ret.log :
           /\ ZeroRadiusArc(ret.log[i])
           /\ ret.log[i].args[1] # 0
           /\ Len(ret.log[i].calls) = 1 /\ ret.log[i].calls[1].op = "cLine"
           /\ ret.log[i].posOut = Pt(EndPoint(ret.log[i]).x, ret.log[i].pos.y)
           /\ ret.log[i].posOut # EndPoint(ret.log[i])

\* the same of every segment but the arcs with a radius of zero
PositionTracksPathButZeroRadius ==
    DecodesPath =>
        \A i \in DOMAIN ret.log :
            (ret.log[i].letter \in DrawingLetters /\ ~ZeroRadiusArc(ret.log[i]))
                => ret.log[i].posOut = EndPoint(ret.log[i])

\* where an arc with a radius of zero leaves the position: where it was when
\* both radii are zero, else at the foot of the end point on the horizontal
\* or vertical through it
ZeroRadiusArcPosition ==
    DecodesPath =>
        \A i \in DOMAIN ret.log :
            ZeroRadiusArc(ret.log[i]) =>
                LET g == ret.log[i]
                IN  g.posOut = CASE g.args[1] = 0 /\ g.args[2] = 0 -> g.pos
                                 [] g.args[2] = 0 -> Pt(EndPoint(g).x, g.pos.y)
                                 [] OTHER -> Pt(g.pos.x, EndPoint(g).y)

\* ------------------------------------------------ bindings: interference
\* the functions the binding of the object this assigns: those of canvas
\* for a context, else those of svg with the finish of the library; the
\* binding of COMIC itself assigns no finish
OwnFunctions(this) ==
    CASE this \in Contexts -> [begin |-> "canvas", path |-> "canvas", finish |-> "canvas"]
      [] this = "d3.enter" -> [begin |-> "svg", path |-> "svg", finish |-> "d3"]
      [] OTHER -> [begin |-> "svg", path |-> "svg", finish |-> this]

UsesOwnFunctions ==
    LET this == call.args[1]
        own == OwnFunctions(this)
    IN  /\ ret.used.begin = own.begin
        /\ ret.used.path = own.path
        /\ this # Self => ret.used.finish = own.finish

\* C27: after any sequence of bindings, those of load time and then those
\* of C.ctx and C.init with a context, a drawer called through a library
\* uses the begin, path and finish of that library, not those a later
\* binding has assigned.
C27_BindingsDoNotInterfere ==
    call.op = "this.cLine" => UsesOwnFunctions

\* in a page with Raphael a line is drawn through Raphael after C.ctx has
\* bound a canvas context: the begin of canvas is called on the paper,
\* which throws
C27_Witness ==
    /\ call.op = "this.cLine"
    /\ call.args[1] = "raphael"
    /\ bound.libs = {"raphael", Self, "ctx1"}
    /\ ret.used.begin = "canvas"
    /\ ret.error = TypeError

\* a drawer called through the object bound last uses the functions of its
\* own binding: a context once one is bound, else a lone library
LastBoundUsesOwn ==
    (/\ call.op = "this.cLine"
     /\ \/ call.args[1] \in Contexts
        \/ bound.libs \subseteq {call.args[1], Self} /\ call.args[1] # Self)
    => UsesOwnFunctions /\ ret.error = ""

\* in a page with Raphael and D3 a drawer of Raphael hands the path string
\* to the finish of D3, which throws
LoadTimeInterference ==
    /\ call.op = "this.cLine"
    /\ call.args[1] = "raphael"
    /\ bound.libs = {"raphael", "d3", "d3.enter", Self}
    /\ ret.used = [begin |-> "svg", path |-> "svg", finish |-> "d3"]
    /\ ret.error = TypeError

\* ------------------------------------------------ arcs: every arc converts
\* getEllipse was called as rePath calls it: the end point is not the start
\* point and both radii are above zero
ArcConverted ==
    /\ call.op = "getEllipse"
    /\ call.args[1] # call.args[2]
    /\ call.args[3] > 0 /\ call.args[4] > 0

\* the center and the angles returned are numbers
FiniteEllipse ==
    /\ ret[1].x # NaN /\ ret[1].y # NaN
    /\ ret[2].x.n # NaN /\ ret[2].y.n # NaN

\* C28: for every arc that reaches getEllipse, with radii too small to span
\* the chord as well, the quantity under the square root is not negative
\* and the center and the angles are finite numbers.
C28_ArcConversionTotal == ArcConverted => FiniteEllipse

\* the chord from (0, 0) to (12, 16), 20 long, under a circle of radius 6:
\* the center and the angles are not numbers
C28_Witness ==
    /\ ArcConverted
    /\ call.args = <<Pt(Fx(0), Fx(0)), Pt(Fx(12), Fx(16)), Fx(6), Fx(6), 0, FALSE, TRUE>>
    /\ ret[1] = Pt(NaN, NaN)
    /\ ret[2].x.n = NaN /\ ret[2].y.n = NaN

\* the same of the arcs without rotation whose radii span the chord
ArcConversionOfSpanningArcs ==
    (/\ ArcConverted
     /\ call.args[5] = 0
     /\ SpansChord(call.args[1], call.args[2], call.args[3], call.args[4], 0))
    => FiniteEllipse

\* ------------------------------------------------- arcs: the rotation drawn
\* the entries of the log for which the ellipse drawer was called
EllipseArcs ==
    {i \in DOMAIN ret.log :
        /\ ret.log[i].letter \in Arcs
        /\ Len(ret.log[i].calls) = 2 /\ ret.log[i].calls[2].op = "cEllipse"}

\* an angle without its whole turns
Turned(a) == Ang(a.n % a.d, a.d)

\* the rotation the ellipse drawer draws entry g with: the number it is
\* called with, taken as radians and no more than 2 * PI
DrawnRotation(g) == AngMin(PI2, radians(g.calls[2].args[5]))

\* the ellipse drawn for entry g starts at the start point of the arc and
\* ends at its end point: the first and the last point handed to the sink
DrawnFromTo(g) ==
    \E a \in EmissionsOf(g), b \in EmissionsOf(g) :
        /\ trace[a].preLen = g.from
        /\ trace[b].postLen = g.to
        /\ Near(Pt(trace[a].x0, trace[a].y0), g.pos)
        /\ Near(Pt(trace[b].x1, trace[b].y1), EndPoint(g))

\* C29: an arc with the rotation R is converted and drawn with R taken as
\* degrees: the ellipse drawer draws with the angle of R degrees, not with
\* R radians and not with 2 * PI in place of it, and the ellipse drawn runs
\* from the start point of the arc to its end point.
C29_ArcRotationInDegrees ==
    DecodesPath =>
        \A i \in EllipseArcs :
            /\ Turned(DrawnRotation(ret.log[i])) = Turned(Ang(ret.log[i].args[3], 360))
            /\ DrawnFromTo(ret.log[i])

\* the arc A 20 10 30 0 1 20 10 has been drawn from (10, 10): the drawer was
\* called with the number 30 and has drawn with a rotation of a whole turn
C29_Witness ==
    /\ call.op = "rePath"
    /\ \E i \in EllipseArcs :
           /\ ret.log[i].args[3] = 30
           /\ ret.log[i].calls[1].args[7] = 30
           /\ ret.log[i].calls[2].args[5] = 30
           /\ DrawnRotation(ret.log[i]) = PI2
           /\ ~DrawnFromTo(ret.log[i])

\* the same of the arcs that are not rotated
UnrotatedArcsDrawn ==
    DecodesPath =>
        \A i \in EllipseArcs :
            ret.log[i].args[3] = 0 =>
                /\ DrawnRotation(ret.log[i]) = Ang(0, 1)
                /\ DrawnFromTo(ret.log[i])

\* an arc turned by -45 degrees is drawn with a rotation of -45 radians
NegativeRotationDrawn ==
    /\ call.op = "rePath"
    /\ \E i \in EllipseArcs :
           /\ ret.log[i].args[3] = -45
           /\ DrawnRotation(ret.log[i]) = radians(-45)
           /\ Turned(DrawnRotation(ret.log[i])) # Turned(Ang(-45, 360))

\* --------------------------------------------------- magic: the tree walk
RECURSIVE Reach(_)
\* the ids of e and of the elements below it that are reached through
\* recognized tags and have a recognized tag
Reach(e) ==
    {e.id} \cup UNION {Reach(e.children[i]) :
                          i \in {k \in DOMAIN e.children : e.children[k].tagName \in KnownTags}}

RECURSIVE Below(_)
\* the ids of the elements below e
Below(e) == UNION {{e.children[i].id} \cup Below(e.children[i]) : i \in DOMAIN e.children}

RECURSIVE Hidden(_)
\* the ids of the elements of the tree of e that are below an unrecognized tag
Hidden(e) ==
    UNION {IF e.children[i].tagName \in KnownTags THEN Hidden(e.children[i])
           ELSE Below(e.children[i]) : i \in DOMAIN e.children}

\* how often walk has come to the element k in the call
WalkedTimes(k) == Cardinality({i \in DOMAIN ret.visits : ret.visits[i] = k})

\* the call has left the element k as it was
Unmodified(k) ==
    /\ WalkedTimes(k) = 0
    /\ \A i \in DOMAIN ret.changes : ret.changes[i].id # k
    /\ page.paths[k] = ret.before.paths[k]
    /\ k \in page.walked <=> k \in ret.before.walked

WalksOnce ==
    \A root \in ItemsOf(call.args[1]) :
        /\ \A k \in Reach(root) : WalkedTimes(k) = 1
        /\ \A k \in Hidden(root) : Unmodified(k)

\* C30: in every call of magic, a repeated call on a drawing that was
\* cartoonized before included, every element with a recognized tag that
\* is reached through recognized tags is reinterpreted exactly once (the
\* path that has replaced a shape not a second time in the call), and no
\* element below an unrecognized tag is modified.
C30_TreeWalkOnce == call.op = "page.magic" => WalksOnce

\* magic has been called on the sheet a second time: the path and the group
\* with its rect, walked before, are passed over, and the path that has
\* replaced the line is redrawn
C30_Witness ==
    /\ call.op = "page.magic"
    /\ call.args[1] = Sheet
    /\ {30, 31, 32, 33, 34} \subseteq ret.before.walked \cup {30}
    /\ ret.before.paths[32].made /\ ~ret.before.paths[32].walked
    /\ WalkedTimes(30) = 1 /\ WalkedTimes(32) = 1
    /\ WalkedTimes(31) = 0 /\ WalkedTimes(33) = 0 /\ WalkedTimes(34) = 0
    /\ page.paths[32].d # ret.before.paths[32].d

\* the same of the calls on a page no call has touched
FirstWalkOnce ==
    (call.op = "page.magic" /\ ret.before = Untouched) => WalksOnce

\* in no call walk comes to an element twice, and what is below an
\* unrecognized tag is left as it was
NeverWalkedTwice ==
    call.op = "page.magic" =>
        \A root \in ItemsOf(call.args[1]) :
            /\ \A k \in Reach(root) : WalkedTimes(k) <= 1
            /\ \A k \in Hidden(root) : Unmodified(k)

====
